---------------------------- MODULE Spec2Model ----------------------------
(***************************************************************************)
(* Model of the ESP32 chore organizer sketch                               *)
(* (ESP32-Chore-Organizer/ESP32-Chore-Organizer.ino): the recurrence       *)
(* calculator, the completion / points ledger, the web request handlers,   *)
(* the periodic status sweep and the joystick handler.                     *)
(*                                                                         *)
(* Time stamps are epoch seconds (time_t), as in the sketch.  The calendar *)
(* operators follow TimeLib's breakTime / makeTime / weekday, which the    *)
(* sketch calls.                                                           *)
(***************************************************************************)
EXTENDS Integers, Sequences, FiniteSets, TLC

VARIABLES
    chores,                \* std::vector<Chore> chores
    users,                 \* std::vector<User> users
    currentChoreIndex,     \* index of the chore shown on the LCD (0-based)
    inConfirmationDialog,  \* the "Mark Complete?" dialog is open
    confirmationSelection, \* TRUE for "Y", FALSE for "N"
    scrollPosition,        \* horizontal offset of the auto name scroll
    pressTracked,          \* buttonPressStartTime > 0: a press is being timed
    joystickPressed,       \* long press already handled for this hold
    clock,                 \* now(): epoch seconds
    ticks,                 \* number of clock advances taken so far
    audit,                 \* history, parallel to chores: what the ledger did for each chore
    trail,                 \* history: the most recent complete / un-complete pair
    dueCase,               \* one application of calculateNextDueDate (SpecDue)
    phase,                 \* "off" before setup(), "connecting" inside it, "loop" after it
    mounted,               \* SPIFFS.begin(true) succeeded
    serverUp,              \* server.begin() was reached: requests are served
    wifiUp,                \* WiFi.status() == WL_CONNECTED
    leds,                  \* the levels last written to the three LED pins
    fileChores,            \* SPIFFS file /chores.json
    fileUsers,             \* SPIFFS file /users.json
    response,              \* status code of the last server.send(), 0 before the first
    lcd,                   \* the screen last drawn on the LCD
    heldMoves,             \* history: cursor moves since joyY was last sampled centred
    debounceAge,           \* millis() - lastJoystickDebounce when handleJoystick last returned
    sinceAccepted,         \* history: ms since the joystick last un-completed a chore,
                           \* opened the dialog or closed it
    pauseScrolling,        \* the name scroll is held at offset 0
    running,               \* the handler loop() is inside, and how far it has got (SpecLoop)
    listed                 \* what the last list request read (SpecLoop)

vars == <<chores, users, currentChoreIndex, inConfirmationDialog,
          confirmationSelection, scrollPosition, pressTracked, joystickPressed,
          clock, ticks, audit, trail, dueCase,
          phase, mounted, serverUp, wifiUp, leds, fileChores, fileUsers, response, lcd,
          heldMoves, debounceAge, sinceAccepted, pauseScrolling, running, listed>>

\* everything but the response: what an error response leaves alone
stateVars == <<chores, users, currentChoreIndex, inConfirmationDialog,
               confirmationSelection, scrollPosition, pressTracked, joystickPressed,
               clock, ticks, audit, trail, dueCase,
               phase, mounted, serverUp, wifiUp, leds, fileChores, fileUsers, lcd,
               heldMoves, debounceAge, sinceAccepted, pauseScrolling>>

\* the debounce timer and its history (both capped at MaxAge)
pressVars == <<debounceAge, sinceAccepted>>

\* the position of loop() inside a handler, and the last listing
loopVars == <<running, listed>>

\* what no handler of the control loop writes
bootVars == <<phase, mounted, serverUp, wifiUp>>

-----------------------------------------------------------------------------
(* Program constants *)

DAILY_POINTS == 1
WEEKLY_POINTS == 5
MONTHLY_POINTS == 20
debounceDelay == 300
scrollDelay == 400
SCROLL_PAUSE_DURATION == 2000
LONG_PRESS_DURATION == 1000
NAVIGATION_DELAY == 300
CONFIRM_NAV_DELAY == 300
JOYSTICK_CENTER_LOW == 1000
JOYSTICK_CENTER_HIGH == 3000
SECS_PER_DAY == 24 * 3600
MONDAY == 2

Frequencies == {"daily", "weekly", "monthly"}

-----------------------------------------------------------------------------
(* Calendar arithmetic, as TimeLib computes it.  tm.Year is an offset from *)
(* 1970; tm.Wday counts Sunday as 1.                                       *)

LEAP_YEAR(Y) ==
    /\ (1970 + Y) % 4 = 0
    /\ ((1970 + Y) % 100 # 0 \/ (1970 + Y) % 400 = 0)

yearLength(Y) == IF LEAP_YEAR(Y) THEN 366 ELSE 365

monthLength(Y, m) ==
    CASE m = 2 -> IF LEAP_YEAR(Y) THEN 29 ELSE 28
      [] m \in {4, 6, 9, 11} -> 30
      [] OTHER -> 31

weekday(t) == (((t \div SECS_PER_DAY) + 4) % 7) + 1

\* a signed 32-bit time_t ends in 2038
LastYear == 2038 - 1970

\* makeTime's loop over the years before tm.Year: the days before year Y
RECURSIVE daysBeforeYear(_)
daysBeforeYear(Y) == IF Y = 0 THEN 0 ELSE daysBeforeYear(Y - 1) + yearLength(Y - 1)

\* makeTime's loop over the months before tm.Month: the days of year Y before month m
RECURSIVE daysBeforeMonth(_, _)
daysBeforeMonth(Y, m) == IF m <= 1 THEN 0 ELSE daysBeforeMonth(Y, m - 1) + monthLength(Y, m - 1)

\* the two loops, run once for every year and month and kept as tables
\* (@@ makes each table an explicit function, computed once)
yearStart == [Y \in 0..LastYear |-> daysBeforeYear(Y)] @@ <<>>
monthStart == [leap \in BOOLEAN |->
                  [m \in 1..13 |-> daysBeforeMonth(IF leap THEN 2 ELSE 1, m)] @@ <<>>] @@ <<>>

\* the year loop of breakTime: <<year, day of that year (0-based)>>; the year that
\* holds day `days` lies between days / 366 and days / 365
yearSplit(days) ==
    LET Y == CHOOSE y \in (days \div 366)..(days \div 365) :
                 yearStart[y] <= days /\ days < yearStart[y + 1]
    IN  <<Y, days - yearStart[Y]>>

\* the month loop of breakTime: <<month (1-based), day of month (0-based)>>
monthSplit(days, Y) ==
    LET m == CHOOSE n \in 1..12 : monthStart[LEAP_YEAR(Y)][n] <= days /\ days < monthStart[LEAP_YEAR(Y)][n + 1]
    IN  <<m, days - monthStart[LEAP_YEAR(Y)][m]>>

breakTime(t) ==
    LET days == t \div SECS_PER_DAY
        ys   == yearSplit(days)
        ms   == monthSplit(ys[2], ys[1])
    IN  [Second |-> t % 60,
         Minute |-> (t \div 60) % 60,
         Hour   |-> (t \div 3600) % 24,
         Wday   |-> ((days + 4) % 7) + 1,
         Day    |-> ms[2] + 1,
         Month  |-> ms[1],
         Year   |-> ys[1]]

makeTime(tm) ==
    (yearStart[tm.Year] + monthStart[LEAP_YEAR(tm.Year)][tm.Month] + (tm.Day - 1)) * SECS_PER_DAY
    + tm.Hour * 3600 + tm.Minute * 60 + tm.Second

-----------------------------------------------------------------------------
(* Recurrence calculator *)

\* a slip of the "daily" branch: the 24 hours are not added
dailyNextDue_SameDay(lastCompleted) ==
    LET tm == breakTime(lastCompleted)
    IN  makeTime([tm EXCEPT !.Hour = 0, !.Minute = 0, !.Second = 0])

\* a slip of the "daily" branch: 24 hours are added to lastCompleted itself
dailyNextDue_Plus24h(lastCompleted) == lastCompleted + 24 * 3600

\* "daily": midnight of lastCompleted's day, plus 24 hours
dailyNextDue(lastCompleted) ==
    LET tm == breakTime(lastCompleted)
    IN  makeTime([tm EXCEPT !.Hour = 0, !.Minute = 0, !.Second = 0]) + 24 * 3600

\* the while loop of the "weekly" branch: add days until weekday is Monday
RECURSIVE adjustToMonday(_)
adjustToMonday(t) == IF weekday(t) # MONDAY THEN adjustToMonday(t + 24 * 3600) ELSE t

\* a slip of the "weekly" branch: the 7 days are not added
weeklyNextDue_NoWeek(lastCompleted) == adjustToMonday(lastCompleted)

\* "weekly": lastCompleted plus 7 days, then advanced to a Monday
weeklyNextDue(lastCompleted) == adjustToMonday(lastCompleted + 7 * 24 * 3600)

\* a slip of the "monthly" branch: tm.Day is not set to 1
monthlyNextDue_KeepDay(lastCompleted) ==
    LET tm == breakTime(lastCompleted)
    IN  IF tm.Month + 1 > 12
        THEN makeTime([tm EXCEPT !.Month = 1, !.Year = tm.Year + 1])
        ELSE makeTime([tm EXCEPT !.Month = tm.Month + 1])

\* "monthly": day 1 of the following month, same time of day
monthlyNextDue(lastCompleted) ==
    LET tm == breakTime(lastCompleted)
    IN  IF tm.Month + 1 > 12
        THEN makeTime([tm EXCEPT !.Day = 1, !.Month = 1, !.Year = tm.Year + 1])
        ELSE makeTime([tm EXCEPT !.Day = 1, !.Month = tm.Month + 1])

\* void calculateNextDueDate(Chore& chore): the chore with nextDue set; t is now()
calculateNextDueDate(chore, t) ==
    IF chore.lastCompleted = 0 THEN [chore EXCEPT !.nextDue = t]
    ELSE IF chore.frequency = "daily"
         THEN [chore EXCEPT !.nextDue = dailyNextDue(chore.lastCompleted)]
    ELSE IF chore.frequency = "weekly"
         THEN [chore EXCEPT !.nextDue = weeklyNextDue(chore.lastCompleted)]
    ELSE IF chore.frequency = "monthly"
         THEN [chore EXCEPT !.nextDue = monthlyNextDue(chore.lastCompleted)]
    ELSE chore

-----------------------------------------------------------------------------
(* Data *)

\* struct Chore
Chore(name, person, frequency, completed, lastCompleted, nextDue, pointsAwarded) ==
    [name |-> name, person |-> person, frequency |-> frequency,
     completed |-> completed, lastCompleted |-> lastCompleted,
     nextDue |-> nextDue, pointsAwarded |-> pointsAwarded]

\* struct User
User(username, points) == [username |-> username, points |-> points]

-----------------------------------------------------------------------------
(* LED traffic light *)

LedOff    == [red |-> FALSE, yellow |-> FALSE, green |-> FALSE]
LedRed    == [red |-> TRUE,  yellow |-> FALSE, green |-> FALSE]
LedYellow == [red |-> FALSE, yellow |-> TRUE,  green |-> FALSE]
LedGreen  == [red |-> FALSE, yellow |-> FALSE, green |-> TRUE]

\* bool isChoreOverdue(const Chore& chore); t is now()
isChoreOverdue(chore, t) == ~chore.completed /\ t > chore.nextDue

\* a slip of updateLEDStatus: the WiFi test comes after the chore tests
updateLEDStatus_WifiLast(cs, up, t) ==
    LET allCompleted == \A k \in 1..Len(cs) : cs[k].completed
        anyOverdue   == \E k \in 1..Len(cs) : ~cs[k].completed /\ isChoreOverdue(cs[k], t)
    IN  IF cs = <<>> \/ allCompleted THEN LedGreen
        ELSE IF anyOverdue THEN LedRed
        ELSE IF ~up THEN LedRed
        ELSE LedYellow

\* void updateLEDStatus(): the levels written to the pins; up is
\* WiFi.status() == WL_CONNECTED, t is now()
updateLEDStatus(cs, up, t) ==
    LET allCompleted == \A k \in 1..Len(cs) : cs[k].completed
        anyOverdue   == \E k \in 1..Len(cs) : ~cs[k].completed /\ isChoreOverdue(cs[k], t)
    IN  IF ~up THEN LedRed
        ELSE IF cs = <<>> \/ allCompleted THEN LedGreen
        ELSE IF anyOverdue THEN LedRed
        ELSE LedYellow

-----------------------------------------------------------------------------
(* SPIFFS files.  A file is absent, holds text that deserializeJson        *)
(* rejects, or holds a JSON array of objects.                              *)

FileAbsent    == [kind |-> "absent", items |-> <<>>]
FileMalformed == [kind |-> "malformed", items |-> <<>>]
FileArray(items) == [kind |-> "array", items |-> items]

\* saveChores: the object written for one chore (nextDue is not written)
choreObj(c) ==
    [name |-> c.name, person |-> c.person, frequency |-> c.frequency,
     completed |-> c.completed, lastCompleted |-> c.lastCompleted,
     pointsAwarded |-> c.pointsAwarded]

\* void saveChores(), the file part: /chores.json after the call; old is the
\* file before it, ok is whether SPIFFS.open succeeds
saveChores(cs, old, ok) ==
    IF ok THEN FileArray([k \in 1..Len(cs) |-> choreObj(cs[k])]) ELSE old

\* void saveUsers(): /users.json after the call
saveUsers(us, old, ok) ==
    IF ok THEN FileArray(us) ELSE old

\* void loadChores(), the vector part: chores after the call; t is now()
loadChores(file, t) ==
    IF file.kind = "array"
    THEN [k \in 1..Len(file.items) |->
             calculateNextDueDate(
                 Chore(file.items[k].name, file.items[k].person, file.items[k].frequency,
                       file.items[k].completed, file.items[k].lastCompleted, 0,
                       file.items[k].pointsAwarded), t)]
    ELSE <<>>

\* a slip of loadUsers: no default user is added
loadUsers_NoDefault(file) ==
    IF file.kind = "array" THEN file.items ELSE <<>>

\* void loadUsers(): users after the call
loadUsers(file) ==
    LET read == IF file.kind = "array" THEN file.items ELSE <<>>
    IN  IF read = <<>> THEN <<User("Default", 0)>> ELSE read

-----------------------------------------------------------------------------
(* Bounds and input sets of the model *)

MaxChores == 1
MaxUsers == 1
MaxPoints == 5
MaxTicks == 1
\* clock steps of SpecSweep
MaxSweepTicks == 2
\* heldMoves stops counting here
MaxHeld == 2
\* debounceAge and sinceAccepted stop counting here: any age above debounceDelay
MaxAge == 400

Names == {"Dishes"}
Persons == {"Default", "Ann"}
UserNames == {"Ann"}

\* 2024-01-31 14:00:00, a Wednesday
StartClock == 19753 * SECS_PER_DAY + 14 * 3600
TickSteps == {SECS_PER_DAY}

\* analogRead samples: deflected low, centred, deflected high
AxisSamples == {500, 2000, 3500}
\* millis() - buttonPressStartTime at a sample
PressDurations == {200, 1500}
\* millis() - <time of the last acted-on event> at a sample
ElapsedSamples == {100, 400}

-----------------------------------------------------------------------------
(* History kept beside the program state.  audit[i] belongs to chores[i]:  *)
(* how many times a user was credited for it since it last became          *)
(* incomplete (credits), and whether it is incomplete because the sweep    *)
(* reset it (swept).  trail describes the most recent ledger operation: the      *)
(* chore it marked complete (idx), the balances before that (before),      *)
(* whether the assignee named a user then (matched), the clock (at), who   *)
(* did it (by), whether the chore was edited since (edited), and, once it  *)
(* is un-completed again, who did that (undoBy).                           *)

NoAudit == [credits |-> 0, swept |-> FALSE]

\* loop() is between two handlers
NotRunning == [handler |-> "none", index |-> 0, args |-> <<>>, todo |-> <<>>,
               mem |-> [chores |-> <<>>, users |-> <<>>]]

\* no list request has been served
NoListing == [taken |-> FALSE,
              view  |-> [chores |-> <<>>, users |-> <<>>],
              entry |-> [chores |-> <<>>, users |-> <<>>],
              exit  |-> [chores |-> <<>>, users |-> <<>>]]

TrailIdle == [phase |-> "idle", idx |-> 0, before |-> <<>>, matched |-> FALSE,
              at |-> 0, by |-> "", undoBy |-> "", edited |-> FALSE]

pointsOf(us) == [k \in 1..Len(us) |-> us[k].points]

-----------------------------------------------------------------------------
(* Completion and points ledger.  A ledger value L holds the chores, the   *)
(* users and the audit history; i is a 1-based position in chores.         *)

\* the frequency if-chain that sets pointsToAdd / pointsToSubtract
pointsFor(frequency) ==
    IF frequency = "daily" THEN DAILY_POINTS
    ELSE IF frequency = "weekly" THEN WEEKLY_POINTS
    ELSE IF frequency = "monthly" THEN MONTHLY_POINTS
    ELSE 0

\* for (User& user : users) if (user.username == personName) ... break;
\* the position of the first match, 0 when there is none
findUser(us, personName) ==
    IF \E k \in 1..Len(us) : us[k].username = personName
    THEN CHOOSE k \in 1..Len(us) :
            /\ us[k].username = personName
            /\ \A j \in 1..(k - 1) : us[j].username # personName
    ELSE 0

\* a slip of the award block: the pointsAwarded gate is missing
awardPoints_Ungated(L, i) ==
    LET c   == L.chores[i]
        k   == findUser(L.users, c.person)
        pts == pointsFor(c.frequency)
    IN  [chores |-> [L.chores EXCEPT ![i].pointsAwarded = TRUE],
         users  |-> IF k = 0 THEN L.users ELSE [L.users EXCEPT ![k].points = @ + pts],
         audit  |-> IF k = 0 THEN L.audit
                    ELSE [L.audit EXCEPT ![i].credits = @ + 1]]

\* "Award points only if not already awarded for this cycle"
awardPoints(L, i) ==
    LET c   == L.chores[i]
        k   == findUser(L.users, c.person)
        pts == pointsFor(c.frequency)
    IN  IF ~c.pointsAwarded
        THEN [chores |-> [L.chores EXCEPT ![i].pointsAwarded = TRUE],
              users  |-> IF k = 0 THEN L.users ELSE [L.users EXCEPT ![k].points = @ + pts],
              audit  |-> IF k = 0 THEN L.audit
                         ELSE [L.audit EXCEPT ![i].credits = @ + 1]]
        ELSE L

\* a slip of the revoke block: DAILY_POINTS is subtracted whatever the frequency
revokePoints_Flat(L, i) ==
    LET c   == L.chores[i]
        k   == findUser(L.users, c.person)
        pts == DAILY_POINTS
    IN  IF c.pointsAwarded
        THEN [chores |-> [L.chores EXCEPT ![i].pointsAwarded = FALSE],
              users  |-> IF k = 0 THEN L.users
                         ELSE [L.users EXCEPT ![k].points =
                                   IF @ - pts < 0 THEN 0 ELSE @ - pts],
              audit  |-> L.audit]
        ELSE L

\* a slip of the revoke block: "if (user.points < 0) user.points = 0" is missing
revokePoints_NoClamp(L, i) ==
    LET c   == L.chores[i]
        k   == findUser(L.users, c.person)
        pts == pointsFor(c.frequency)
    IN  IF c.pointsAwarded
        THEN [chores |-> [L.chores EXCEPT ![i].pointsAwarded = FALSE],
              users  |-> IF k = 0 THEN L.users
                         ELSE [L.users EXCEPT ![k].points = @ - pts],
              audit  |-> L.audit]
        ELSE L

\* "If points were awarded for this chore, subtract them when uncompleted"
revokePoints(L, i) ==
    LET c   == L.chores[i]
        k   == findUser(L.users, c.person)
        pts == pointsFor(c.frequency)
    IN  IF c.pointsAwarded
        THEN [chores |-> [L.chores EXCEPT ![i].pointsAwarded = FALSE],
              users  |-> IF k = 0 THEN L.users
                         ELSE [L.users EXCEPT ![k].points =
                                   IF @ - pts < 0 THEN 0 ELSE @ - pts],
              audit  |-> L.audit]
        ELSE L

\* history: a chore that was incomplete starts a new completion
openCycle(L, i) ==
    IF L.chores[i].completed THEN L ELSE [L EXCEPT !.audit[i] = NoAudit]

\* history: a chore that was un-completed closes its completion
closeCycle(L, i) == [L EXCEPT !.audit[i] = NoAudit]

\* the award block runs saveUsers(): an incomplete chore, not yet awarded, whose
\* assignee names a user
awardRuns(L, i) ==
    /\ ~L.chores[i].completed
    /\ ~L.chores[i].pointsAwarded
    /\ findUser(L.users, L.chores[i].person) # 0

\* the revoke block runs saveUsers(): a completed chore, awarded, whose assignee
\* names a user
revokeRuns(L, i) ==
    /\ L.chores[i].completed
    /\ L.chores[i].pointsAwarded
    /\ findUser(L.users, L.chores[i].person) # 0

\* a slip of the toggle: a chore whose assignee names no user is not completed
toggleChore_MissAborts(L, i, t) ==
    IF L.chores[i].completed
    THEN LET R == revokePoints(L, i)
         IN  closeCycle([R EXCEPT !.chores[i].completed = FALSE], i)
    ELSE IF findUser(L.users, L.chores[i].person) = 0
         THEN L
    ELSE LET M == openCycle(L, i)
             A == awardPoints([M EXCEPT !.chores[i].completed = TRUE], i)
         IN  [A EXCEPT !.chores[i] =
                  calculateNextDueDate([@ EXCEPT !.lastCompleted = t], t)]

\* handleToggleChore, the toggle of chores[index]; t is now()
toggleChore(L, i, t) ==
    IF L.chores[i].completed
    THEN LET R == revokePoints(L, i)
         IN  closeCycle([R EXCEPT !.chores[i].completed = FALSE], i)
    ELSE LET M == openCycle(L, i)
             A == awardPoints([M EXCEPT !.chores[i].completed = TRUE], i)
         IN  [A EXCEPT !.chores[i] =
                  calculateNextDueDate([@ EXCEPT !.lastCompleted = t], t)]

\* a slip of the confirm: the chore is toggled, not marked complete
joystickConfirm_Toggle(L, i, t) == toggleChore(L, i, t)

\* a slip of the confirm: calculateNextDueDate is not called
joystickConfirm_NoDue(L, i, t) ==
    LET M == openCycle(L, i)
        D == [M EXCEPT !.chores[i].completed = TRUE, !.chores[i].lastCompleted = t]
    IN  awardPoints(D, i)

\* handleJoystick, "User selected Yes - mark the chore as complete"
joystickConfirm(L, i, t) ==
    LET M == openCycle(L, i)
        D == [M EXCEPT !.chores[i] =
                 calculateNextDueDate([@ EXCEPT !.completed = TRUE, !.lastCompleted = t], t)]
    IN  awardPoints(D, i)

\* a slip of the direct un-complete: the revoke block is skipped
joystickUncomplete_NoRevoke(L, i) ==
    closeCycle([L EXCEPT !.chores[i].completed = FALSE], i)

\* handleJoystick, short press on a completed chore: straight to incomplete
joystickUncomplete(L, i) ==
    LET R == revokePoints(L, i)
    IN  closeCycle([R EXCEPT !.chores[i].completed = FALSE], i)

\* a slip of the sweep: a completed chore is reset before it is due
sweepChore_Eager(c, t) ==
    IF c.completed
    THEN [c EXCEPT !.completed = FALSE, !.pointsAwarded = FALSE]
    ELSE c

\* a slip of the sweep: the award flag is left set
sweepChore_KeepAward(c, t) ==
    IF c.completed /\ t >= c.nextDue
    THEN [c EXCEPT !.completed = FALSE]
    ELSE c

\* a slip of the sweep: a chore is reset only after its due date has passed
sweepChore_Strict(c, t) ==
    IF c.completed /\ t > c.nextDue
    THEN [c EXCEPT !.completed = FALSE, !.pointsAwarded = FALSE]
    ELSE c

\* updateChoreStatus, the body of the loop over chores; t is now()
sweepChore(c, t) ==
    IF c.completed /\ t >= c.nextDue
    THEN [c EXCEPT !.completed = FALSE, !.pointsAwarded = FALSE]
    ELSE c

\* chores.erase(chores.begin() + index), on any vector; i is 1-based
erase(seq, i) == [k \in 1..(Len(seq) - 1) |-> IF k < i THEN seq[k] ELSE seq[k + 1]]

\* a slip of the clamp: the cursor is left where it was
clampIndex_Keep(cur, size) == cur

\* handleDeleteChore: the cursor after the erase, for the new size
clampIndex(cur, size) ==
    IF cur >= size
    THEN (IF size - 1 < 0 THEN 0 ELSE size - 1)
    ELSE cur

Ledger == [chores |-> chores, users |-> users, audit |-> audit]

\* history: the trail after a mark-complete of chores[i]
trailComplete(i, by) ==
    [phase   |-> IF chores[i].completed THEN "recompleted" ELSE "completed",
     idx     |-> i,
     before  |-> pointsOf(users),
     matched |-> findUser(users, chores[i].person) # 0,
     at      |-> clock,
     by      |-> by,
     undoBy  |-> "",
     edited  |-> FALSE]

\* history: the trail after an un-complete of chores[i]
trailUncomplete(i, by) ==
    IF trail.phase = "completed" /\ trail.idx = i
    THEN [trail EXCEPT !.phase = "undone", !.undoBy = by]
    ELSE TrailIdle

\* history: the trail after an edit of chores[i]
trailEdit(i) ==
    IF trail.phase = "completed" /\ trail.idx = i
    THEN [trail EXCEPT !.edited = TRUE]
    ELSE TrailIdle

-----------------------------------------------------------------------------
(* SpecDue: calculateNextDueDate applied to one chore.  The inputs are a   *)
(* last-completion stamp (0 is "never"), a frequency and the value of      *)
(* now() at the call.                                                      *)

DueDays == 400

\* 2024-01-01 00:00:00, a Monday
DueBase == 19723 * SECS_PER_DAY

TimesOfDay == {0, 14 * 3600, 23 * 3600 + 59 * 60 + 59}

DueStamps == {0} \cup {DueBase + d * SECS_PER_DAY + s : d \in 0..DueDays, s \in TimesOfDay}

DueClocks == {DueBase + 3600, DueBase + 500 * SECS_PER_DAY}

DueIdle == [chore |-> Chore("", "", "daily", FALSE, 0, 0, FALSE), t |-> 0, done |-> TRUE]

CalcDue ==
    /\ ~dueCase.done
    /\ dueCase' = [dueCase EXCEPT !.chore = calculateNextDueDate(dueCase.chore, dueCase.t),
                                  !.done = TRUE]
    /\ UNCHANGED <<chores, users, currentChoreIndex, inConfirmationDialog,
                   confirmationSelection, scrollPosition, pressTracked, joystickPressed,
                   clock, ticks, audit, trail, bootVars, heldMoves, pressVars, loopVars, pauseScrolling, leds, fileChores, fileUsers,
                   response, lcd>>

-----------------------------------------------------------------------------
(* Spec: the sketch after its first boot (no chores file, no users file:   *)
(* loadUsers adds the user "Default"), then the handlers the control loop  *)
(* runs, one at a time.                                                    *)

InitProgram ==
    /\ chores = <<>>
    /\ users = <<User("Default", 0)>>
    /\ currentChoreIndex = 0
    /\ inConfirmationDialog = FALSE
    /\ confirmationSelection = TRUE
    /\ scrollPosition = 0
    /\ pressTracked = FALSE
    /\ joystickPressed = FALSE
    /\ clock = StartClock
    /\ ticks = 0
    /\ audit = <<>>
    /\ trail = TrailIdle
    /\ phase = "loop"
    /\ mounted = TRUE
    /\ serverUp = TRUE
    /\ wifiUp = TRUE
    /\ leds = updateLEDStatus(<<>>, TRUE, StartClock)
    /\ fileChores = FileAbsent
    /\ fileUsers = saveUsers(<<User("Default", 0)>>, FileAbsent, TRUE)
    /\ response = 0
    /\ lcd = "chore"
    /\ heldMoves = 0
    /\ debounceAge = MaxAge
    /\ sinceAccepted = MaxAge
    /\ pauseScrolling = FALSE
    /\ running = NotRunning
    /\ listed = NoListing

Init ==
    /\ InitProgram
    /\ dueCase = DueIdle

joyVars == <<currentChoreIndex, inConfirmationDialog, confirmationSelection,
             pressTracked, joystickPressed>>

\* the system clock advances between two loop iterations
Tick(step) ==
    /\ clock' = clock + step
    /\ ticks' = ticks + 1
    /\ trail' = TrailIdle
    /\ UNCHANGED <<chores, users, joyVars, scrollPosition, audit, dueCase,
                   bootVars, heldMoves, pressVars, loopVars, pauseScrolling, leds, fileChores, fileUsers, response, lcd>>

\* void handleToggleChore(), the toggle request (the list request changes nothing)
HandleToggleChore(hasIndex, index) ==
    IF hasIndex /\ index >= 0 /\ index < Len(chores)
    THEN LET i == index + 1
             R == toggleChore(Ledger, i, clock)
         IN  /\ chores' = R.chores
             /\ users' = R.users
             /\ audit' = R.audit
             /\ trail' = IF chores[i].completed THEN trailUncomplete(i, "web")
                         ELSE trailComplete(i, "web")
             /\ scrollPosition' = 0
             /\ fileUsers' = IF awardRuns(Ledger, i) \/ revokeRuns(Ledger, i)
                             THEN saveUsers(R.users, fileUsers, mounted)
                             ELSE fileUsers
             /\ fileChores' = saveChores(R.chores, fileChores, mounted)
             /\ leds' = updateLEDStatus(R.chores, wifiUp, clock)
             /\ response' = 200
             /\ lcd' = "chore"
             /\ UNCHANGED <<joyVars, clock, ticks, dueCase, bootVars, heldMoves, pressVars,
                            pauseScrolling>>
    ELSE /\ response' = 400
         /\ UNCHANGED stateVars

\* void handleAddChore()
HandleAddChore(hasArgs, name, person, frequency) ==
    IF hasArgs
    THEN /\ chores' = Append(chores,
                calculateNextDueDate(Chore(name, person, frequency, FALSE, 0, 0, FALSE), clock))
         /\ audit' = Append(audit, NoAudit)
         /\ trail' = TrailIdle
         /\ fileChores' = saveChores(chores', fileChores, mounted)
         /\ leds' = updateLEDStatus(chores', wifiUp, clock)
         /\ response' = 200
         /\ lcd' = "chore"
         /\ UNCHANGED <<users, joyVars, scrollPosition, clock, ticks, dueCase,
                        bootVars, heldMoves, pressVars, loopVars, pauseScrolling, fileUsers>>
    ELSE /\ response' = 400
         /\ UNCHANGED <<stateVars, loopVars>>

\* a slip of handleDeleteChore: the index is tested against 0..size, not 0..size-1
HandleDeleteChore_OffByOne(hasIndex, index) ==
    IF hasIndex /\ index >= 0 /\ index <= Len(chores)
    THEN /\ chores' = erase(chores, IF index < Len(chores) THEN index + 1 ELSE Len(chores))
         /\ audit' = erase(audit, IF index < Len(chores) THEN index + 1 ELSE Len(chores))
         /\ Len(chores) > 0
         /\ currentChoreIndex' = clampIndex(currentChoreIndex, Len(chores) - 1)
         /\ trail' = TrailIdle
         /\ fileChores' = saveChores(chores', fileChores, mounted)
         /\ leds' = updateLEDStatus(chores', wifiUp, clock)
         /\ response' = 200
         /\ lcd' = "chore"
         /\ UNCHANGED <<users, inConfirmationDialog, confirmationSelection, pressTracked,
                        joystickPressed, scrollPosition, clock, ticks, dueCase,
                        bootVars, heldMoves, pressVars, loopVars, pauseScrolling, fileUsers>>
    ELSE /\ response' = 400
         /\ UNCHANGED <<stateVars, loopVars>>

\* void handleDeleteChore()
HandleDeleteChore(hasIndex, index) ==
    IF hasIndex /\ index >= 0 /\ index < Len(chores)
    THEN /\ chores' = erase(chores, index + 1)
         /\ audit' = erase(audit, index + 1)
         /\ currentChoreIndex' = clampIndex(currentChoreIndex, Len(chores) - 1)
         /\ trail' = TrailIdle
         /\ fileChores' = saveChores(chores', fileChores, mounted)
         /\ leds' = updateLEDStatus(chores', wifiUp, clock)
         /\ response' = 200
         /\ lcd' = "chore"
         /\ UNCHANGED <<users, inConfirmationDialog, confirmationSelection, pressTracked,
                        joystickPressed, scrollPosition, clock, ticks, dueCase,
                        bootVars, heldMoves, pressVars, loopVars, pauseScrolling, fileUsers>>
    ELSE /\ response' = 400
         /\ UNCHANGED <<stateVars, loopVars>>

\* a slip of handleUpdateChore: an edit of a completed chore starts a new cycle
HandleUpdateChore_NewCycle(hasArgs, index, name, person, frequency) ==
    IF hasArgs /\ index >= 0 /\ index < Len(chores)
    THEN LET i == index + 1
             e == [chores[i] EXCEPT !.name = name, !.person = person,
                                    !.frequency = frequency, !.pointsAwarded = FALSE]
         IN  /\ chores' = [chores EXCEPT ![i] =
                              IF e.completed THEN calculateNextDueDate(e, clock) ELSE e]
             /\ trail' = trailEdit(i)
             /\ fileChores' = saveChores(chores', fileChores, mounted)
             /\ leds' = updateLEDStatus(chores', wifiUp, clock)
             /\ response' = 200
             /\ lcd' = "chore"
             /\ UNCHANGED <<users, joyVars, scrollPosition, clock, ticks, audit, dueCase,
                            bootVars, heldMoves, pressVars, loopVars, pauseScrolling, fileUsers>>
    ELSE /\ response' = 400
         /\ UNCHANGED <<stateVars, loopVars>>

\* void handleUpdateChore()
HandleUpdateChore(hasArgs, index, name, person, frequency) ==
    IF hasArgs /\ index >= 0 /\ index < Len(chores)
    THEN LET i == index + 1
             e == [chores[i] EXCEPT !.name = name, !.person = person,
                                    !.frequency = frequency]
         IN  /\ chores' = [chores EXCEPT ![i] =
                              IF e.completed THEN calculateNextDueDate(e, clock) ELSE e]
             /\ trail' = trailEdit(i)
             /\ fileChores' = saveChores(chores', fileChores, mounted)
             /\ leds' = updateLEDStatus(chores', wifiUp, clock)
             /\ response' = 200
             /\ lcd' = "chore"
             /\ UNCHANGED <<users, joyVars, scrollPosition, clock, ticks, audit, dueCase,
                            bootVars, heldMoves, pressVars, loopVars, pauseScrolling, fileUsers>>
    ELSE /\ response' = 400
         /\ UNCHANGED <<stateVars, loopVars>>

\* void handleGetChore()
HandleGetChore(hasIndex, index) ==
    /\ response' = IF hasIndex /\ index >= 0 /\ index < Len(chores) THEN 200 ELSE 400
    /\ UNCHANGED <<stateVars, loopVars>>

\* void handleGetUser()
HandleGetUser(hasIndex, index) ==
    /\ response' = IF hasIndex /\ index >= 0 /\ index < Len(users) THEN 200 ELSE 400
    /\ UNCHANGED <<stateVars, loopVars>>

\* void handleAddUser()
HandleAddUser(hasArgs, username) ==
    IF hasArgs
    THEN /\ users' = Append(users, User(username, 0))
         /\ trail' = TrailIdle
         /\ fileUsers' = saveUsers(users', fileUsers, mounted)
         /\ response' = 200
         /\ UNCHANGED <<chores, joyVars, scrollPosition, clock, ticks, audit, dueCase,
                        bootVars, heldMoves, pressVars, loopVars, pauseScrolling, leds, fileChores, lcd>>
    ELSE /\ response' = 400
         /\ UNCHANGED <<stateVars, loopVars>>

\* a slip of handleDeleteUser: the chores of the deleted user lose their assignee
HandleDeleteUser_Cascade(hasIndex, index) ==
    IF hasIndex /\ index >= 0 /\ index < Len(users)
    THEN /\ users' = erase(users, index + 1)
         /\ chores' = [k \in 1..Len(chores) |->
                          IF chores[k].person = users[index + 1].username
                          THEN [chores[k] EXCEPT !.person = ""]
                          ELSE chores[k]]
         /\ trail' = TrailIdle
         /\ fileUsers' = saveUsers(users', fileUsers, mounted)
         /\ response' = 200
         /\ UNCHANGED <<joyVars, scrollPosition, clock, ticks, audit, dueCase,
                        bootVars, heldMoves, pressVars, loopVars, pauseScrolling, leds, fileChores, lcd>>
    ELSE /\ response' = 400
         /\ UNCHANGED <<stateVars, loopVars>>

\* void handleDeleteUser()
HandleDeleteUser(hasIndex, index) ==
    IF hasIndex /\ index >= 0 /\ index < Len(users)
    THEN /\ users' = erase(users, index + 1)
         /\ trail' = TrailIdle
         /\ fileUsers' = saveUsers(users', fileUsers, mounted)
         /\ response' = 200
         /\ UNCHANGED <<chores, joyVars, scrollPosition, clock, ticks, audit, dueCase,
                        bootVars, heldMoves, pressVars, loopVars, pauseScrolling, leds, fileChores, lcd>>
    ELSE /\ response' = 400
         /\ UNCHANGED <<stateVars, loopVars>>

\* void handleUpdateUser()
HandleUpdateUser(hasArgs, index, username) ==
    IF hasArgs /\ index >= 0 /\ index < Len(users)
    THEN /\ users' = [users EXCEPT ![index + 1].username = username]
         /\ trail' = TrailIdle
         /\ fileUsers' = saveUsers(users', fileUsers, mounted)
         /\ response' = 200
         /\ UNCHANGED <<chores, joyVars, scrollPosition, clock, ticks, audit, dueCase,
                        bootVars, heldMoves, pressVars, loopVars, pauseScrolling, leds, fileChores, lcd>>
    ELSE /\ response' = 400
         /\ UNCHANGED <<stateVars, loopVars>>

\* void handleResetPoints()
HandleResetPoints ==
    /\ users' = [k \in 1..Len(users) |-> [users[k] EXCEPT !.points = 0]]
    /\ trail' = TrailIdle
    /\ fileUsers' = saveUsers(users', fileUsers, mounted)
    /\ response' = 200
    /\ UNCHANGED <<chores, joyVars, scrollPosition, clock, ticks, audit, dueCase,
                   bootVars, heldMoves, pressVars, loopVars, pauseScrolling, leds, fileChores, lcd>>

\* void handleAutoScrolling(); sinceScroll is millis() - lastScrollTime and
\* sincePause is millis() - pauseStartTime
HandleAutoScrolling(sinceScroll, sincePause) ==
    IF chores = <<>> \/ inConfirmationDialog
    THEN UNCHANGED vars
    ELSE LET length == Len(chores[currentChoreIndex + 1].name)
             wrap   == scrollPosition + 1 > length - 8
         IN  IF length <= 11
             THEN /\ scrollPosition' = 0
                  /\ pauseScrolling' = FALSE
                  /\ lcd' = lcd
                  /\ UNCHANGED <<chores, users, joyVars, clock, ticks, audit, trail, dueCase,
                                 bootVars, heldMoves, pressVars, loopVars, leds,
                                 fileChores, fileUsers, response>>
             ELSE IF pauseScrolling
             THEN /\ pauseScrolling' = ~(sincePause > SCROLL_PAUSE_DURATION)
                  /\ UNCHANGED <<scrollPosition, lcd>>
                  /\ UNCHANGED <<chores, users, joyVars, clock, ticks, audit, trail, dueCase,
                                 bootVars, heldMoves, pressVars, loopVars, leds,
                                 fileChores, fileUsers, response>>
             ELSE IF sinceScroll > scrollDelay
             THEN /\ scrollPosition' = IF wrap THEN 0 ELSE scrollPosition + 1
                  /\ pauseScrolling' = wrap
                  /\ lcd' = "chore"
                  /\ UNCHANGED <<chores, users, joyVars, clock, ticks, audit, trail, dueCase,
                                 bootVars, heldMoves, pressVars, loopVars, leds,
                                 fileChores, fileUsers, response>>
             ELSE UNCHANGED vars

\* void updateChoreStatus(), the periodic sweep, and the updateLEDStatus()
\* that loop() calls right after it
UpdateChoreStatus ==
    LET swept   == [k \in 1..Len(chores) |-> sweepChore(chores[k], clock)]
        changed == swept # chores
    IN  /\ chores' = swept
        /\ audit' = [k \in 1..Len(chores) |->
                        IF swept[k] # chores[k] THEN [NoAudit EXCEPT !.swept = TRUE]
                        ELSE audit[k]]
        /\ trail' = IF changed THEN [TrailIdle EXCEPT !.phase = "swept"] ELSE trail
        /\ lcd' = IF changed THEN "chore" ELSE lcd
        /\ fileChores' = IF changed THEN saveChores(swept, fileChores, mounted)
                         ELSE fileChores
        /\ leds' = updateLEDStatus(swept, wifiUp, clock)
        /\ UNCHANGED <<users, joyVars, scrollPosition, clock, ticks, dueCase,
                       bootVars, heldMoves, pressVars, loopVars, pauseScrolling, fileUsers, response>>

\* a slip of handleJoystick: buttonPressStartTime is not cleared when the dialog opens
HandleJoystick_TimerKept(joyX, joyY, buttonState, pressDur, sinceDeb, sinceNav, sinceConfNav) ==
    LET cur == currentChoreIndex + 1
        dur == IF pressTracked THEN pressDur ELSE 0
        centred == joyY >= JOYSTICK_CENTER_LOW /\ joyY <= JOYSTICK_CENTER_HIGH
    IN
    IF inConfirmationDialog
    THEN LET moved == /\ sinceConfNav > CONFIRM_NAV_DELAY
                      /\ (joyX < JOYSTICK_CENTER_LOW \/ joyX > JOYSTICK_CENTER_HIGH)
             sel == IF sinceConfNav > CONFIRM_NAV_DELAY
                    THEN (IF joyX < JOYSTICK_CENTER_LOW THEN TRUE
                          ELSE IF joyX > JOYSTICK_CENTER_HIGH THEN FALSE
                          ELSE confirmationSelection)
                    ELSE confirmationSelection
             released == ~buttonState /\ pressTracked
             short    == released /\ dur < LONG_PRESS_DURATION
             commit   == short /\ sel /\ chores # <<>>
             R        == IF commit THEN joystickConfirm(Ledger, cur, clock) ELSE Ledger
         IN  /\ confirmationSelection' = sel
             /\ pressTracked' = buttonState
             /\ chores' = R.chores
             /\ users' = R.users
             /\ audit' = R.audit
             /\ trail' = IF commit THEN trailComplete(cur, "joystick") ELSE trail
             /\ inConfirmationDialog' = ~short
             /\ scrollPosition' = IF short THEN 0 ELSE scrollPosition
             /\ fileUsers' = IF commit /\ ~chores[cur].pointsAwarded
                                       /\ findUser(users, chores[cur].person) # 0
                             THEN saveUsers(R.users, fileUsers, mounted)
                             ELSE fileUsers
             /\ fileChores' = IF commit THEN saveChores(R.chores, fileChores, mounted)
                              ELSE fileChores
             /\ leds' = IF commit THEN updateLEDStatus(R.chores, wifiUp, clock) ELSE leds
             /\ lcd' = IF short THEN "chore" ELSE IF moved THEN "dialog" ELSE lcd
             /\ heldMoves' = IF centred THEN 0 ELSE heldMoves
             /\ UNCHANGED <<currentChoreIndex, joystickPressed, clock, ticks, dueCase,
                            bootVars, response, pauseScrolling>>
    ELSE LET long   == buttonState /\ dur > LONG_PRESS_DURATION /\ ~joystickPressed
             act    == /\ ~buttonState
                       /\ pressTracked
                       /\ dur < LONG_PRESS_DURATION
                       /\ ~joystickPressed
                       /\ sinceDeb > debounceDelay
             undo   == act /\ chores # <<>> /\ chores[cur].completed
             open   == act /\ chores # <<>> /\ ~chores[cur].completed
             R      == IF undo THEN joystickUncomplete(Ledger, cur) ELSE Ledger
             \* displayNetworkStatus() returns 2 s after the release
             navDue == long \/ sinceNav > NAVIGATION_DELAY
             nav    == chores # <<>> /\ ~open /\ navDue
             up     == nav /\ joyY < JOYSTICK_CENTER_LOW
             down   == nav /\ ~up /\ joyY > JOYSTICK_CENTER_HIGH
         IN  /\ pressTracked' = (buttonState \/ open)
             /\ joystickPressed' = (buttonState /\ (joystickPressed \/ long))
             /\ chores' = R.chores
             /\ users' = R.users
             /\ audit' = R.audit
             /\ trail' = IF undo THEN trailUncomplete(cur, "joystick") ELSE trail
             /\ inConfirmationDialog' = open
             /\ confirmationSelection' = IF open THEN TRUE ELSE confirmationSelection
             /\ currentChoreIndex' =
                    IF up THEN (currentChoreIndex + 1) % Len(chores)
                    ELSE IF down THEN (currentChoreIndex - 1 + Len(chores)) % Len(chores)
                    ELSE currentChoreIndex
             /\ scrollPosition' = IF undo \/ up \/ down THEN 0 ELSE scrollPosition
             /\ fileUsers' = IF undo /\ revokeRuns(Ledger, cur)
                             THEN saveUsers(R.users, fileUsers, mounted)
                             ELSE fileUsers
             /\ fileChores' = IF undo THEN saveChores(R.chores, fileChores, mounted)
                              ELSE fileChores
             /\ leds' = IF undo THEN updateLEDStatus(R.chores, wifiUp, clock) ELSE leds
             /\ lcd' = IF open THEN "dialog"
                       ELSE IF long \/ undo \/ up \/ down THEN "chore"
                       ELSE lcd
             /\ heldMoves' = IF centred THEN 0
                             ELSE IF currentChoreIndex' # currentChoreIndex
                                  THEN IF heldMoves < MaxHeld THEN heldMoves + 1 ELSE MaxHeld
                                  ELSE heldMoves
             /\ UNCHANGED <<clock, ticks, dueCase, bootVars, response, pauseScrolling>>

\* void handleJoystick().  joyX, joyY and buttonState are the samples read at
\* entry; pressDur is millis() - buttonPressStartTime, sinceDeb is
\* millis() - lastJoystickDebounce, sinceNav is millis() - lastNavigationTime
\* and sinceConfNav is millis() - lastConfirmNavTime at this call.
HandleJoystick(joyX, joyY, buttonState, pressDur, sinceDeb, sinceNav, sinceConfNav) ==
    LET cur == currentChoreIndex + 1
        dur == IF pressTracked THEN pressDur ELSE 0
        centred == joyY >= JOYSTICK_CENTER_LOW /\ joyY <= JOYSTICK_CENTER_HIGH
    IN
    IF inConfirmationDialog
    THEN LET moved == /\ sinceConfNav > CONFIRM_NAV_DELAY
                      /\ (joyX < JOYSTICK_CENTER_LOW \/ joyX > JOYSTICK_CENTER_HIGH)
             sel == IF sinceConfNav > CONFIRM_NAV_DELAY
                    THEN (IF joyX < JOYSTICK_CENTER_LOW THEN TRUE
                          ELSE IF joyX > JOYSTICK_CENTER_HIGH THEN FALSE
                          ELSE confirmationSelection)
                    ELSE confirmationSelection
             released == ~buttonState /\ pressTracked
             short    == released /\ dur < LONG_PRESS_DURATION
             commit   == short /\ sel /\ chores # <<>>
             R        == IF commit THEN joystickConfirm(Ledger, cur, clock) ELSE Ledger
         IN  /\ confirmationSelection' = sel
             /\ pressTracked' = buttonState
             /\ chores' = R.chores
             /\ users' = R.users
             /\ audit' = R.audit
             /\ trail' = IF commit THEN trailComplete(cur, "joystick") ELSE trail
             /\ inConfirmationDialog' = ~short
             /\ scrollPosition' = IF short THEN 0 ELSE scrollPosition
             /\ fileUsers' = IF commit /\ ~chores[cur].pointsAwarded
                                       /\ findUser(users, chores[cur].person) # 0
                             THEN saveUsers(R.users, fileUsers, mounted)
                             ELSE fileUsers
             /\ fileChores' = IF commit THEN saveChores(R.chores, fileChores, mounted)
                              ELSE fileChores
             /\ leds' = IF commit THEN updateLEDStatus(R.chores, wifiUp, clock) ELSE leds
             /\ lcd' = IF short THEN "chore" ELSE IF moved THEN "dialog" ELSE lcd
             /\ heldMoves' = IF centred THEN 0 ELSE heldMoves
             /\ UNCHANGED <<currentChoreIndex, joystickPressed, clock, ticks, dueCase,
                            bootVars, response, pauseScrolling>>
    ELSE LET long   == buttonState /\ dur > LONG_PRESS_DURATION /\ ~joystickPressed
             act    == /\ ~buttonState
                       /\ pressTracked
                       /\ dur < LONG_PRESS_DURATION
                       /\ ~joystickPressed
                       /\ sinceDeb > debounceDelay
             undo   == act /\ chores # <<>> /\ chores[cur].completed
             open   == act /\ chores # <<>> /\ ~chores[cur].completed
             R      == IF undo THEN joystickUncomplete(Ledger, cur) ELSE Ledger
             \* displayNetworkStatus() returns 2 s after the release
             navDue == long \/ sinceNav > NAVIGATION_DELAY
             nav    == chores # <<>> /\ ~open /\ navDue
             up     == nav /\ joyY < JOYSTICK_CENTER_LOW
             down   == nav /\ ~up /\ joyY > JOYSTICK_CENTER_HIGH
         IN  /\ pressTracked' = buttonState
             /\ joystickPressed' = (buttonState /\ (joystickPressed \/ long))
             /\ chores' = R.chores
             /\ users' = R.users
             /\ audit' = R.audit
             /\ trail' = IF undo THEN trailUncomplete(cur, "joystick") ELSE trail
             /\ inConfirmationDialog' = open
             /\ confirmationSelection' = IF open THEN TRUE ELSE confirmationSelection
             /\ currentChoreIndex' =
                    IF up THEN (currentChoreIndex + 1) % Len(chores)
                    ELSE IF down THEN (currentChoreIndex - 1 + Len(chores)) % Len(chores)
                    ELSE currentChoreIndex
             /\ scrollPosition' = IF undo \/ up \/ down THEN 0 ELSE scrollPosition
             /\ fileUsers' = IF undo /\ revokeRuns(Ledger, cur)
                             THEN saveUsers(R.users, fileUsers, mounted)
                             ELSE fileUsers
             /\ fileChores' = IF undo THEN saveChores(R.chores, fileChores, mounted)
                              ELSE fileChores
             /\ leds' = IF undo THEN updateLEDStatus(R.chores, wifiUp, clock) ELSE leds
             /\ lcd' = IF open THEN "dialog"
                       ELSE IF long \/ undo \/ up \/ down THEN "chore"
                       ELSE lcd
             /\ heldMoves' = IF centred THEN 0
                             ELSE IF currentChoreIndex' # currentChoreIndex
                                  THEN IF heldMoves < MaxHeld THEN heldMoves + 1 ELSE MaxHeld
                                  ELSE heldMoves
             /\ UNCHANGED <<clock, ticks, dueCase, bootVars, response, pauseScrolling>>

WebIndexes == -1..MaxChores

\* the bounds of the model: collection sizes, point balances, clock advances
WithinBounds ==
    /\ Len(chores') <= MaxChores
    /\ Len(users') <= MaxUsers
    /\ \A k \in 1..Len(users') : users'[k].points <= MaxPoints
    /\ ticks' <= MaxTicks

\* A request that lacks a parameter is served the same way whatever the other
\* parameters are: one such request stands for all.
Next ==
    \/ \E step \in TickSteps : Tick(step) /\ WithinBounds
    \/ \E index \in WebIndexes : HandleToggleChore(TRUE, index) /\ UNCHANGED loopVars /\ WithinBounds
    \/ HandleToggleChore(FALSE, 0) /\ UNCHANGED loopVars
    \/ \E n \in Names, p \in Persons, f \in Frequencies :
          HandleAddChore(TRUE, n, p, f) /\ WithinBounds
    \/ HandleAddChore(FALSE, "", "", "")
    \/ \E index \in WebIndexes : HandleDeleteChore(TRUE, index)
    \/ HandleDeleteChore(FALSE, 0)
    \/ \E index \in WebIndexes, n \in Names, p \in Persons, f \in Frequencies :
          HandleUpdateChore(TRUE, index, n, p, f)
    \/ HandleUpdateChore(FALSE, 0, "", "", "")
    \/ \E u \in UserNames : HandleAddUser(TRUE, u) /\ WithinBounds
    \/ HandleAddUser(FALSE, "")
    \/ \E index \in WebIndexes : HandleDeleteUser(TRUE, index)
    \/ HandleDeleteUser(FALSE, 0)
    \/ \E index \in WebIndexes, u \in UserNames : HandleUpdateUser(TRUE, index, u)
    \/ HandleUpdateUser(FALSE, 0, "")
    \/ \E index \in WebIndexes : HandleGetChore(TRUE, index)
    \/ HandleGetChore(FALSE, 0)
    \/ \E index \in WebIndexes : HandleGetUser(TRUE, index)
    \/ HandleGetUser(FALSE, 0)
    \/ HandleResetPoints
    \/ UpdateChoreStatus
    \* one call reads joyX or joyY, never both: one sample stands for either; the
    \* three elapsed times are sampled together
    \/ \E joy \in AxisSamples, b \in BOOLEAN, d \in PressDurations, e \in ElapsedSamples :
          HandleJoystick(joy, joy, b, d, e, e, e) /\ UNCHANGED <<pressVars, loopVars>> /\ WithinBounds

Spec == Init /\ [][Next]_vars

-----------------------------------------------------------------------------
(* SpecDue *)

InitDue ==
    /\ InitProgram
    /\ dueCase \in {[chore |-> Chore("Dishes", "Default", f, FALSE, lc, 0, FALSE),
                     t |-> t, done |-> FALSE] :
                       f \in Frequencies, lc \in DueStamps, t \in DueClocks}

NextDue == CalcDue

SpecDue == InitDue /\ [][NextDue]_vars

-----------------------------------------------------------------------------
(* SpecBoot: the device from power-on.  setup() blocks twice, while the    *)
(* station connects (up to 20 waits of 500 ms) and for 2 s on "Connected!" *)
(* with the outputs as lines 94-96 left them; it is modelled as the step   *)
(* up to the connection wait and the step from there to its return.        *)

\* the contents of the flash file system at power-on
BootChoreFiles ==
    {FileAbsent, FileMalformed,
     FileArray(<<choreObj(Chore("Dishes", "Ann", "daily", FALSE, 0, 0, FALSE))>>),
     FileArray(<<choreObj(Chore("Dishes", "Ann", "daily", TRUE, StartClock - 3600, 0, TRUE))>>)}
BootUserFiles ==
    {FileAbsent, FileMalformed, FileArray(<<>>), FileArray(<<User("Ann", 1)>>)}

\* the globals as their initializers leave them, before setup() runs
InitBoot ==
    /\ chores = <<>>
    /\ users = <<>>
    /\ currentChoreIndex = 0
    /\ inConfirmationDialog = FALSE
    /\ confirmationSelection = TRUE
    /\ scrollPosition = 0
    /\ pressTracked = FALSE
    /\ joystickPressed = FALSE
    /\ clock = 0
    /\ ticks = 0
    /\ audit = <<>>
    /\ trail = TrailIdle
    /\ phase = "off"
    /\ mounted = FALSE
    /\ serverUp = FALSE
    /\ wifiUp = FALSE
    /\ leds = LedOff
    /\ fileChores \in BootChoreFiles
    /\ fileUsers \in BootUserFiles
    /\ response = 0
    /\ lcd = "blank"
    /\ heldMoves = 0
    /\ debounceAge = 0
    /\ sinceAccepted = MaxAge
    /\ pauseScrolling = FALSE
    /\ running = NotRunning
    /\ listed = NoListing
    /\ dueCase = DueIdle

\* void setup(), lines 85-127: the outputs are driven LOW, the LCD shows
\* "Starting...", SPIFFS is mounted and the station starts to connect
SetupBegin(mountOk) ==
    /\ phase = "off"
    /\ leds' = LedOff
    /\ mounted' = mountOk
    /\ phase' = IF mountOk THEN "connecting" ELSE "loop"
    /\ lcd' = IF mountOk THEN "connecting" ELSE "spiffs failed"
    /\ UNCHANGED <<chores, users, joyVars, scrollPosition, clock, ticks, audit, trail,
                   dueCase, serverUp, wifiUp, fileChores, fileUsers, response,
                   heldMoves, pressVars, loopVars, pauseScrolling>>

\* void setup(), lines 129-190: connected is WiFi.status() == WL_CONNECTED after
\* the wait, ntp is timeClient.getEpochTime()
SetupConnect(connected, ntp) ==
    /\ phase = "connecting"
    /\ phase' = "loop"
    /\ wifiUp' = connected
    /\ IF ~connected
       THEN /\ leds' = [leds EXCEPT !.red = TRUE]
            /\ lcd' = "wifi failed"
            /\ UNCHANGED <<chores, users, joyVars, scrollPosition, clock, ticks, audit,
                           trail, dueCase, mounted, serverUp, fileChores, fileUsers,
                           response, heldMoves, pressVars, loopVars, pauseScrolling>>
       ELSE /\ clock' = ntp
            /\ serverUp' = TRUE
            /\ chores' = loadChores(fileChores, ntp)
            /\ audit' = [k \in 1..Len(chores') |->
                            [credits |-> IF chores'[k].pointsAwarded THEN 1 ELSE 0,
                             swept   |-> FALSE]]
            /\ users' = loadUsers(fileUsers)
            /\ fileUsers' = IF fileUsers.kind = "array" /\ fileUsers.items # <<>>
                            THEN fileUsers
                            ELSE saveUsers(users', fileUsers, mounted)
            /\ lcd' = "chore"
            /\ leds' = updateLEDStatus(chores', connected, ntp)
            /\ UNCHANGED <<joyVars, scrollPosition, ticks, trail, dueCase, mounted,
                           fileChores, response, heldMoves, pressVars, loopVars, pauseScrolling>>

\* the station loses or regains its access point while loop() runs
WifiChange ==
    /\ phase = "loop"
    /\ mounted
    /\ wifiUp' = ~wifiUp
    /\ UNCHANGED <<chores, users, joyVars, scrollPosition, clock, ticks, audit, trail,
                   dueCase, phase, mounted, serverUp, leds, fileChores, fileUsers,
                   response, lcd, heldMoves, pressVars, loopVars, pauseScrolling>>

\* void loop(): requests are served once server.begin() has run and the
\* station is connected
NextBoot ==
    \/ \E mountOk \in BOOLEAN : SetupBegin(mountOk)
    \/ \E connected \in BOOLEAN : SetupConnect(connected, StartClock)
    \/ WifiChange
    \/ phase = "loop" /\ \E step \in TickSteps : Tick(step) /\ WithinBounds
    \/ phase = "loop" /\ UpdateChoreStatus
    \/ /\ phase = "loop"
       /\ \E joy \in AxisSamples, b \in BOOLEAN, d \in PressDurations, e \in ElapsedSamples :
             HandleJoystick(joy, joy, b, d, e, e, e) /\ UNCHANGED <<pressVars, loopVars>> /\ WithinBounds
    \/ /\ phase = "loop" /\ serverUp /\ wifiUp
       /\ \E index \in WebIndexes : HandleToggleChore(TRUE, index) /\ UNCHANGED loopVars /\ WithinBounds

SpecBoot == InitBoot /\ [][NextBoot]_vars

-----------------------------------------------------------------------------
(* SpecNav: the cursor over a list of up to MaxNavChores chores, under the *)
(* requests and joystick samples that add, delete, toggle and navigate.    *)

MaxNavChores == 3
NavIndexes == -1..MaxNavChores

NavBounds ==
    /\ Len(chores') <= MaxNavChores
    /\ \A k \in 1..Len(users') : users'[k].points <= MaxPoints

NextNav ==
    \/ HandleAddChore(TRUE, "Dishes", "Ann", "daily") /\ NavBounds
    \/ \E index \in NavIndexes : HandleDeleteChore(TRUE, index)
    \/ \E index \in NavIndexes : HandleToggleChore(TRUE, index) /\ UNCHANGED loopVars /\ NavBounds
    \/ \E joy \in AxisSamples, b \in BOOLEAN, d \in PressDurations, e \in ElapsedSamples :
          HandleJoystick(joy, joy, b, d, e, e, e) /\ UNCHANGED <<pressVars, loopVars>> /\ NavBounds

SpecNav == Init /\ [][NextNav]_vars

-----------------------------------------------------------------------------
(* SpecPress: the button with its debounce timer.  In Spec, SpecBoot and   *)
(* SpecNav the value of millis() - lastJoystickDebounce is an input of     *)
(* every sample; here it follows from the time between two samples and     *)
(* from the calls that write lastJoystickDebounce.                         *)

\* ms between two calls of handleJoystick
PressSteps == {100, 400}

\* millis() - lastJoystickDebounce at a call made dt ms after the last one
sinceDebounce(dt) ==
    IF debounceAge + dt < MaxAge THEN debounceAge + dt ELSE MaxAge

\* a slip: lastJoystickDebounce is not written when the dialog closes
writesDebounce_BrowsingOnly(buttonState, pressDur, sinceDeb) ==
    /\ ~buttonState
    /\ pressTracked
    /\ pressDur < LONG_PRESS_DURATION
    /\ ~inConfirmationDialog
    /\ ~joystickPressed
    /\ sinceDeb > debounceDelay

\* whether the call runs "lastJoystickDebounce = millis()": a short release in
\* the dialog (line 775) or an accepted short release in Browsing (line 849)
writesDebounce(buttonState, pressDur, sinceDeb) ==
    /\ ~buttonState
    /\ pressTracked
    /\ pressDur < LONG_PRESS_DURATION
    /\ \/ inConfirmationDialog
       \/ ~joystickPressed /\ sinceDeb > debounceDelay

\* history: this step un-completed the selected chore, opened the dialog or
\* closed it
acceptedPress ==
    \/ inConfirmationDialog' # inConfirmationDialog
    \/ /\ ~inConfirmationDialog
       /\ chores # <<>>
       /\ chores[currentChoreIndex + 1].completed
       /\ ~chores'[currentChoreIndex + 1].completed

\* void handleJoystick(), called dt ms after the previous call
JoystickTimed(joy, buttonState, pressDur, dt, e) ==
    /\ HandleJoystick(joy, joy, buttonState, pressDur, sinceDebounce(dt), e, e)
    /\ debounceAge' = IF writesDebounce(buttonState, pressDur, sinceDebounce(dt))
                      THEN 0
                      ELSE sinceDebounce(dt)
    /\ sinceAccepted' = IF acceptedPress THEN 0
                        ELSE IF sinceAccepted + dt < MaxAge THEN sinceAccepted + dt
                        ELSE MaxAge
    /\ UNCHANGED loopVars

NextPress ==
    \/ HandleAddChore(TRUE, "Dishes", "Default", "daily") /\ WithinBounds
    \/ HandleToggleChore(TRUE, 0) /\ UNCHANGED loopVars /\ WithinBounds
    \/ \E joy \in AxisSamples, b \in BOOLEAN, d \in PressDurations, dt \in PressSteps,
          e \in ElapsedSamples : JoystickTimed(joy, b, d, dt, e) /\ WithinBounds

SpecPress == Init /\ [][NextPress]_vars

-----------------------------------------------------------------------------
(* SpecSweep: one chore through its cycle of completion and reset, with    *)
(* the clock running past the due dates of all three frequencies.  loop()  *)
(* calls updateChoreStatus once every 60 s for as long as the board runs,  *)
(* so the sweep is weakly fair.                                            *)

\* one day, and two weeks: past the Monday after next
SweepSteps == {SECS_PER_DAY, 14 * SECS_PER_DAY}

SweepBounds ==
    /\ Len(chores') <= MaxChores
    /\ \A k \in 1..Len(users') : users'[k].points <= MaxPoints
    /\ ticks' <= MaxSweepTicks

NextSweep ==
    \/ \E step \in SweepSteps : Tick(step) /\ SweepBounds
    \/ \E f \in Frequencies : HandleAddChore(TRUE, "Dishes", "Default", f) /\ SweepBounds
    \/ HandleToggleChore(TRUE, 0) /\ UNCHANGED loopVars /\ SweepBounds
    \/ HandleDeleteChore(TRUE, 0)
    \/ \E f \in Frequencies : HandleUpdateChore(TRUE, 0, "Dishes", "Default", f)
    \/ UpdateChoreStatus
    \* short presses, each after the delays have passed
    \/ \E joy \in AxisSamples, b \in BOOLEAN :
          /\ HandleJoystick(joy, joy, b, 200, 400, 400, 400)
          /\ UNCHANGED <<pressVars, loopVars>>
          /\ SweepBounds

SpecSweep == Init /\ [][NextSweep]_vars /\ WF_vars(UpdateChoreStatus)

-----------------------------------------------------------------------------
(* SpecLoop: the handlers that complete or un-complete a chore, taken one  *)
(* statement at a time.  While loop() is inside such a handler, running    *)
(* names it and running.mem is the memory as the statements executed so    *)
(* far have left it; chores and users keep the values they had when the    *)
(* handler was entered until it returns, and take the handler's result     *)
(* then.  Whatever reads the collections reads memory.                     *)

\* chores and users as a reader finds them
memory ==
    IF running.handler = "none" THEN [chores |-> chores, users |-> users]
    ELSE running.mem

\* the statements of the un-complete block, in order, for chore c
uncompleteStatements(c) ==
    (IF c.pointsAwarded
     THEN (IF findUser(users, c.person) # 0 THEN <<"subtract">> ELSE <<>>)
          \o <<"pointsAwarded = false">>
     ELSE <<>>)
    \o <<"completed = false">>

\* the statements of the award block, in order, for chore c
awardStatements(c) ==
    IF ~c.pointsAwarded
    THEN (IF findUser(users, c.person) # 0 THEN <<"add">> ELSE <<>>)
         \o <<"pointsAwarded = true">>
    ELSE <<>>

\* handleToggleChore, the toggle of chore c: its statements in order
toggleStatements(c) ==
    IF c.completed
    THEN uncompleteStatements(c)
    ELSE <<"completed = true">> \o awardStatements(c)
         \o <<"lastCompleted = now()", "calculateNextDueDate">>

\* handleJoystick, "User selected Yes": its statements in order
confirmStatements(c) ==
    <<"completed = true", "lastCompleted = now()", "calculateNextDueDate">>
    \o awardStatements(c)

\* the statements on chores and users that this call of handleJoystick runs
joystickStatements(joyX, buttonState, pressDur, sinceDeb, sinceConfNav) ==
    LET cur == currentChoreIndex + 1
        dur == IF pressTracked THEN pressDur ELSE 0
        short == ~buttonState /\ pressTracked /\ dur < LONG_PRESS_DURATION
        sel == IF sinceConfNav > CONFIRM_NAV_DELAY
               THEN (IF joyX < JOYSTICK_CENTER_LOW THEN TRUE
                     ELSE IF joyX > JOYSTICK_CENTER_HIGH THEN FALSE
                     ELSE confirmationSelection)
               ELSE confirmationSelection
    IN  IF chores = <<>> \/ ~short THEN <<>>
        ELSE IF inConfirmationDialog
        THEN (IF sel THEN confirmStatements(chores[cur]) ELSE <<>>)
        ELSE IF ~joystickPressed /\ sinceDeb > debounceDelay /\ chores[cur].completed
        THEN uncompleteStatements(chores[cur])
        ELSE <<>>

\* one statement, on memory M and chores[i]; t is now()
execute(stmt, M, i, t) ==
    LET c   == M.chores[i]
        k   == findUser(M.users, c.person)
        pts == pointsFor(c.frequency)
    IN  CASE stmt = "completed = true" -> [M EXCEPT !.chores[i].completed = TRUE]
          [] stmt = "completed = false" -> [M EXCEPT !.chores[i].completed = FALSE]
          [] stmt = "pointsAwarded = true" -> [M EXCEPT !.chores[i].pointsAwarded = TRUE]
          [] stmt = "pointsAwarded = false" -> [M EXCEPT !.chores[i].pointsAwarded = FALSE]
          [] stmt = "lastCompleted = now()" -> [M EXCEPT !.chores[i].lastCompleted = t]
          [] stmt = "calculateNextDueDate" ->
                 [M EXCEPT !.chores[i] = calculateNextDueDate(c, t)]
          [] stmt = "add" -> [M EXCEPT !.users[k].points = @ + pts]
          [] stmt = "subtract" ->
                 [M EXCEPT !.users[k].points = IF @ - pts < 0 THEN 0 ELSE @ - pts]

\* the statements of todo run one after the other on M
RECURSIVE executeAll(_, _, _, _)
executeAll(todo, M, i, t) ==
    IF todo = <<>> THEN M
    ELSE executeAll(Tail(todo), execute(Head(todo), M, i, t), i, t)

\* a slip of loop(): a request is served whatever else is running
canServe_Anytime(r) == TRUE

\* server.handleClient() is called at one place of loop(), between two
\* iterations' other handlers: a request is served when nothing else runs
canServe(r) == r.handler = "none"

\* loop() enters handleToggleChore for a toggle request of chores[index]
EnterToggle(index) ==
    /\ running.handler = "none"
    /\ index >= 0 /\ index < Len(chores)
    /\ running' = [handler |-> "toggle", index |-> index, args |-> <<>>,
                   todo |-> toggleStatements(chores[index + 1]),
                   mem |-> [chores |-> chores, users |-> users]]
    /\ UNCHANGED <<stateVars, response, listed>>

\* loop() enters handleJoystick with these samples
EnterJoystick(joy, buttonState, pressDur, e) ==
    /\ running.handler = "none"
    /\ running' = [handler |-> "joystick", index |-> currentChoreIndex,
                   args |-> <<joy, buttonState, pressDur, e>>,
                   todo |-> joystickStatements(joy, buttonState, pressDur, e, e),
                   mem |-> [chores |-> chores, users |-> users]]
    /\ UNCHANGED <<stateVars, response, listed>>

\* the handler loop() is inside runs its next statement
Statement ==
    /\ running.handler # "none"
    /\ running.todo # <<>>
    /\ running' = [running EXCEPT
                       !.todo = Tail(@),
                       !.mem = execute(Head(running.todo), @, running.index + 1, clock)]
    /\ UNCHANGED <<stateVars, response, listed>>

\* the handler loop() is inside has run its statements: it saves, redraws,
\* answers and returns
Return ==
    /\ running.handler # "none"
    /\ running.todo = <<>>
    /\ \/ /\ running.handler = "toggle"
          /\ HandleToggleChore(TRUE, running.index)
       \/ /\ running.handler = "joystick"
          /\ HandleJoystick(running.args[1], running.args[1], running.args[2],
                            running.args[3], running.args[4], running.args[4],
                            running.args[4])
          /\ UNCHANGED pressVars
    /\ running' = NotRunning
    /\ listed' = listed

\* handleToggleChore, the list request: the chores are read and sent.  With
\* the listing, history keeps what chores and users were when the handler
\* in progress was entered (entry) and what its statements leave (exit).
HandleListChores ==
    /\ canServe(running)
    /\ listed' = [taken |-> TRUE,
                  view  |-> memory,
                  entry |-> [chores |-> chores, users |-> users],
                  exit  |-> executeAll(running.todo, memory, running.index + 1, clock)]
    /\ response' = 200
    /\ UNCHANGED <<stateVars, running>>

\* the other handlers run when loop() is inside none
Between == running.handler = "none" /\ running' = running

LoopPersons == {"Default", "Ann"}

NextLoop ==
    \/ \E step \in TickSteps : Between /\ Tick(step) /\ WithinBounds
    \/ \E p \in LoopPersons, f \in Frequencies :
          Between /\ HandleAddChore(TRUE, "Dishes", p, f) /\ WithinBounds
    \/ Between /\ UpdateChoreStatus
    \/ \E index \in WebIndexes : EnterToggle(index)
    \/ \E joy \in AxisSamples, b \in BOOLEAN, d \in PressDurations, e \in ElapsedSamples :
          EnterJoystick(joy, b, d, e)
    \/ Statement
    \/ Return /\ WithinBounds
    \/ HandleListChores

SpecLoop == Init /\ [][NextLoop]_vars

-----------------------------------------------------------------------------
(* SpecCrash: the device loses power at any point of loop(), inside a      *)
(* handler or between two, and boots again from its two files.  The        *)
(* handlers that complete or un-complete a chore are taken one statement   *)
(* at a time, as in SpecLoop, and each balance update is followed by its   *)
(* saveUsers(); the clock advances, the sweep runs and the chore is edited *)
(* between two handlers.                                                   *)

\* the statements of the handler loop() is inside, from its first
runningStatements ==
    IF running.handler = "toggle" THEN toggleStatements(chores[running.index + 1])
    ELSE IF running.handler = "joystick"
    THEN joystickStatements(running.args[1], running.args[2], running.args[3],
                            running.args[4], running.args[4])
    ELSE <<>>

\* the handler loop() is inside runs its next statement; a balance update
\* is followed by saveUsers()
StatementSaved ==
    /\ running.handler # "none"
    /\ running.todo # <<>>
    /\ running' = [running EXCEPT
                       !.todo = Tail(@),
                       !.mem = execute(Head(running.todo), @, running.index + 1, clock)]
    /\ fileUsers' = IF Head(running.todo) \in {"add", "subtract"}
                    THEN saveUsers(running'.mem.users, fileUsers, mounted)
                    ELSE fileUsers
    /\ UNCHANGED <<chores, users, joyVars, scrollPosition, clock, ticks, audit, trail,
                   dueCase, bootVars, leds, fileChores, response, lcd, heldMoves,
                   pressVars, pauseScrolling, listed>>

\* power is lost and comes back: the globals take their initializers and
\* setup() mounts the file system, connects and loads the two files
Reboot ==
    /\ chores' = loadChores(fileChores, clock)
    /\ users' = loadUsers(fileUsers)
    /\ fileUsers' = IF fileUsers.kind = "array" /\ fileUsers.items # <<>>
                    THEN fileUsers
                    ELSE saveUsers(users', fileUsers, mounted)
    /\ audit' = [k \in 1..Len(chores') |->
                    [credits |-> IF chores'[k].pointsAwarded THEN 1 ELSE 0,
                     swept   |-> k <= Len(audit) /\ audit[k].swept]]
    /\ currentChoreIndex' = 0
    /\ inConfirmationDialog' = FALSE
    /\ confirmationSelection' = TRUE
    /\ scrollPosition' = 0
    /\ pressTracked' = FALSE
    /\ joystickPressed' = FALSE
    /\ pauseScrolling' = FALSE
    /\ trail' = TrailIdle
    /\ wifiUp' = TRUE
    /\ leds' = updateLEDStatus(chores', TRUE, clock)
    /\ lcd' = "chore"
    /\ response' = 0
    /\ heldMoves' = 0
    /\ debounceAge' = 0
    /\ sinceAccepted' = MaxAge
    /\ running' = NotRunning
    /\ UNCHANGED <<clock, ticks, dueCase, phase, mounted, serverUp, fileChores, listed>>

NextCrash ==
    \/ \E step \in TickSteps : Between /\ Tick(step) /\ WithinBounds
    \/ \E p \in LoopPersons, f \in Frequencies :
          Between /\ HandleAddChore(TRUE, "Dishes", p, f) /\ WithinBounds
    \/ \E f \in Frequencies :
          Between /\ HandleUpdateChore(TRUE, 0, "Dishes", "Default", f) /\ WithinBounds
    \/ Between /\ UpdateChoreStatus
    \/ EnterToggle(0)
    \* short presses, each after the delays have passed
    \/ \E joy \in AxisSamples, b \in BOOLEAN : EnterJoystick(joy, b, 200, 400)
    \/ StatementSaved
    \/ Return /\ WithinBounds
    \/ Reboot /\ WithinBounds

SpecCrash == Init /\ [][NextCrash]_vars

-----------------------------------------------------------------------------
(* SpecUsers: up to three users are added, renamed and deleted while one   *)
(* chore is completed and un-completed.                                    *)

MaxManyUsers == 3

ManyUserNames == {"Ann", "Bob"}

UsersBounds ==
    /\ Len(chores') <= MaxChores
    /\ Len(users') <= MaxManyUsers
    /\ \A k \in 1..Len(users') : users'[k].points <= MaxPoints

NextUsers ==
    \/ \E p \in Persons, f \in {"daily", "weekly"} :
          HandleAddChore(TRUE, "Dishes", p, f) /\ UsersBounds
    \/ HandleToggleChore(TRUE, 0) /\ UNCHANGED loopVars /\ UsersBounds
    \/ HandleDeleteChore(TRUE, 0)
    \/ \E u \in ManyUserNames : HandleAddUser(TRUE, u) /\ UsersBounds
    \/ \E index \in 0..(MaxManyUsers - 1) : HandleDeleteUser(TRUE, index)
    \/ \E index \in 0..(MaxManyUsers - 1), u \in ManyUserNames :
          HandleUpdateUser(TRUE, index, u)

SpecUsers == Init /\ [][NextUsers]_vars

-----------------------------------------------------------------------------
(* SpecScroll: up to two chores, some with names longer than the 11        *)
(* columns the LCD has for a name, browsed and scrolled.                   *)

MaxScrollChores == 2

\* names of 6 and 12 characters
ScrollNames == {"Dishes", "Water plants"}

\* millis() - lastScrollTime and millis() - pauseStartTime at a call
ScrollElapsed == {100, 500}
PauseElapsed == {1000, 2500}

ScrollIndexes == 0..(MaxScrollChores - 1)

ScrollBounds == Len(chores') <= MaxScrollChores

NextScroll ==
    \/ \E n \in ScrollNames : HandleAddChore(TRUE, n, "Ann", "daily") /\ ScrollBounds
    \/ \E index \in ScrollIndexes : HandleDeleteChore(TRUE, index)
    \/ \E index \in ScrollIndexes : HandleToggleChore(TRUE, index) /\ UNCHANGED loopVars
    \* short presses and deflections, each after the delays have passed
    \/ \E joy \in AxisSamples, b \in BOOLEAN :
          HandleJoystick(joy, joy, b, 200, 400, 400, 400) /\ UNCHANGED <<pressVars, loopVars>>
    \/ \E ss \in ScrollElapsed, sp \in PauseElapsed : HandleAutoScrolling(ss, sp)

SpecScroll == Init /\ [][NextScroll]_vars

-----------------------------------------------------------------------------
(* SpecHold: the long press taken in two steps.  handleJoystick calls      *)
(* displayNetworkStatus, which waits in "while (digitalRead(JOYSTICK_SW_PIN)*)
(* == LOW) delay(10);" until the button is released; while it waits,       *)
(* running.handler is "status" and loop() runs nothing else.  The release  *)
(* is the user's step and no fairness is asked of it.  Every iteration of  *)
(* loop() that gets past handleJoystick reaches the 60 s timer, so the     *)
(* sweep is strongly fair: it runs if loop() is outside the handlers again *)
(* and again.                                                              *)

\* handleJoystick samples the button held for longer than LONG_PRESS_DURATION
\* and enters displayNetworkStatus
EnterStatus(joy, e) ==
    /\ running.handler = "none"
    /\ ~inConfirmationDialog
    /\ pressTracked
    /\ ~joystickPressed
    /\ running' = [handler |-> "status", index |-> currentChoreIndex,
                   args |-> <<joy, TRUE, 1500, e>>, todo |-> <<>>,
                   mem |-> [chores |-> chores, users |-> users]]
    /\ lcd' = "status"
    /\ UNCHANGED <<chores, users, joyVars, scrollPosition, clock, ticks, audit, trail,
                   dueCase, bootVars, heldMoves, pressVars, pauseScrolling, leds,
                   fileChores, fileUsers, response, listed>>

\* the button is released: displayNetworkStatus leaves its loop, waits 2 s,
\* redraws, and handleJoystick runs on with the samples it took at entry
ReleaseInStatus ==
    /\ running.handler = "status"
    /\ HandleJoystick(running.args[1], running.args[1], running.args[2],
                      running.args[3], running.args[4], running.args[4], running.args[4])
    /\ UNCHANGED pressVars
    /\ running' = NotRunning
    /\ listed' = listed

\* the periodic sweep, when loop() gets to it
SweepInLoop == Between /\ UpdateChoreStatus

NextHold ==
    \/ \E step \in SweepSteps : Between /\ Tick(step) /\ SweepBounds
    \/ \E f \in Frequencies :
          Between /\ HandleAddChore(TRUE, "Dishes", "Default", f) /\ SweepBounds
    \/ Between /\ HandleToggleChore(TRUE, 0) /\ listed' = listed /\ SweepBounds
    \/ \E joy \in AxisSamples, b \in BOOLEAN, e \in ElapsedSamples :
          /\ Between
          /\ HandleJoystick(joy, joy, b, 200, e, e, e)
          /\ UNCHANGED <<pressVars, listed>>
          /\ SweepBounds
    \/ \E joy \in AxisSamples, e \in ElapsedSamples : EnterStatus(joy, e)
    \/ ReleaseInStatus
    \/ SweepInLoop

SpecHold == Init /\ [][NextHold]_vars /\ SF_vars(SweepInLoop)

-----------------------------------------------------------------------------
(* Properties of the completion and points ledger (Spec) *)

\* C1: marking a chore complete again, with no sweep reset and no un-completion
\* in between, credits nothing more: a chore is credited at most once per
\* completion, the first mark of a chore whose assignee names a user credits
\* exactly once, and a repeated mark leaves every balance as it was.
C1_AwardOnce ==
    /\ \A i \in 1..Len(chores) : audit[i].credits <= 1
    /\ (trail.phase = "completed" /\ trail.matched /\ ~trail.edited)
          => audit[trail.idx].credits = 1
    /\ trail.phase = "recompleted" => pointsOf(users) = trail.before

\* C1 witness: the dialog was confirmed for a chore that a web toggle had
\* already completed and credited.
C1_Witness ==
    /\ trail.phase = "recompleted"
    /\ trail.by = "joystick"
    /\ audit[trail.idx].credits = 1
    /\ chores[trail.idx].pointsAwarded
    /\ \E k \in 1..Len(users) : users[k].points > 0

\* C2: a chore whose assignee names a user is completed and then un-completed
\* with no ledger operation or edit in between: every balance is what it was
\* before the completion, and pointsAwarded is false.
C2_CompleteUndoRestores ==
    (trail.phase = "undone" /\ trail.matched /\ ~trail.edited)
        => /\ pointsOf(users) = trail.before
           /\ ~chores[trail.idx].pointsAwarded
           /\ ~chores[trail.idx].completed

\* C2 witness: completed through the dialog and un-completed by a web toggle,
\* by a user who already had points.
C2_Witness ==
    /\ trail.phase = "undone"
    /\ trail.matched
    /\ ~trail.edited
    /\ trail.by = "joystick"
    /\ trail.undoBy = "web"
    /\ \E k \in 1..Len(trail.before) : trail.before[k] > 0

\* C3: within one completion of a chore, the debit made at un-completion equals
\* the credit made at completion, whatever edits of the chore come in between:
\* after the un-completion every balance is what it was before the completion.
C3_DebitEqualsCredit ==
    trail.phase = "undone" => pointsOf(users) = trail.before

\* C4: every chore satisfies pointsAwarded => completed.
C4_AwardedImpliesCompleted ==
    \A i \in 1..Len(chores) : chores[i].pointsAwarded => chores[i].completed

\* C4 witness: a chore that holds an award has come due, so the sweep is about
\* to reset it.
C4_Witness ==
    \E i \in 1..Len(chores) :
        /\ chores[i].pointsAwarded
        /\ chores[i].completed
        /\ audit[i].credits = 1
        /\ clock >= chores[i].nextDue

\* C5: pointsAwarded is true iff points were credited for the chore's current
\* completion (it stays false when the assignee names no user).
C5_AwardedIffCredited ==
    \A i \in 1..Len(chores) : chores[i].pointsAwarded <=> audit[i].credits >= 1

\* C6: a chore whose assignee names no user is marked complete: no balance
\* changes, and the chore is completed, its lastCompleted is the time of the
\* mark and its nextDue is the recurrence of that time.
C6_MissStillCompletes ==
    (trail.phase \in {"completed", "recompleted"} /\ ~trail.matched /\ ~trail.edited)
        => /\ pointsOf(users) = trail.before
           /\ chores[trail.idx].completed
           /\ chores[trail.idx].lastCompleted = trail.at
           /\ chores[trail.idx].nextDue =
                  calculateNextDueDate(chores[trail.idx], clock).nextDue
           /\ chores[trail.idx].nextDue > trail.at

\* C6 witness: the dialog was confirmed for a chore assigned to a name that no
\* user has, while a user with another name exists.
C6_Witness ==
    /\ trail.phase = "completed"
    /\ ~trail.matched
    /\ ~trail.edited
    /\ trail.by = "joystick"
    /\ users # <<>>
    /\ chores[trail.idx].completed
    /\ chores[trail.idx].lastCompleted = clock

\* C7: every chore that was completed at least once has nextDue equal to the
\* recurrence of its current lastCompleted and its current frequency.
C7_NextDueFollowsFrequency ==
    \A i \in 1..Len(chores) :
        chores[i].lastCompleted # 0
            => chores[i].nextDue = calculateNextDueDate(chores[i], clock).nextDue

\* C21: every user's points are at least 0 in every state.
C21_PointsNonNegative ==
    \A k \in 1..Len(users) : users[k].points >= 0

\* C21 witness: a chore was un-completed whose debit (20, monthly) exceeded the
\* balance of the user it names, and that user now holds 0 points.
C21_Witness ==
    /\ trail.phase = "undone"
    /\ trail.idx <= Len(chores)
    /\ chores[trail.idx].frequency = "monthly"
    /\ ~chores[trail.idx].completed
    /\ findUser(users, chores[trail.idx].person) # 0
    /\ users[findUser(users, chores[trail.idx].person)].points = 0
    /\ \E k \in 1..Len(trail.before) : trail.before[k] < MONTHLY_POINTS

\* C23: in Browsing with at least one chore, an accepted short press (a
\* release of a timed press shorter than the long-press threshold, no long
\* press handled in this hold, more than the debounce delay after the last
\* accepted one) on a completed chore makes it incomplete at once, with
\* pointsAwarded cleared and, if it was set and the assignee names a user, that
\* user debited (not below 0), and does not open the dialog; on an incomplete
\* chore it opens the dialog with "Y" selected and changes no chore, no user
\* and no file; and a joystick sample that leaves the dialog open changes no
\* chore and no user.
C23_ShortPressInBrowsing ==
    [][LET cur == currentChoreIndex + 1
           k   == findUser(users, chores[cur].person)
           pts == pointsFor(chores[cur].frequency)
       IN  /\ ( /\ ~inConfirmationDialog
                /\ chores # <<>>
                /\ pressTracked
                /\ ~joystickPressed
                /\ \E joy \in AxisSamples, d \in PressDurations, e \in ElapsedSamples :
                      /\ d < LONG_PRESS_DURATION
                      /\ e > debounceDelay
                      /\ HandleJoystick(joy, joy, FALSE, d, e, e, e) )
              => IF chores[cur].completed
                 THEN /\ ~inConfirmationDialog'
                      /\ chores' = [chores EXCEPT ![cur].completed = FALSE,
                                                  ![cur].pointsAwarded = FALSE]
                      /\ users' = IF chores[cur].pointsAwarded /\ k # 0
                                  THEN [users EXCEPT ![k].points =
                                           IF @ < pts THEN 0 ELSE @ - pts]
                                  ELSE users
                 ELSE /\ inConfirmationDialog'
                      /\ confirmationSelection'
                      /\ UNCHANGED <<chores, users, fileChores, fileUsers>>
           /\ ( /\ inConfirmationDialog
                /\ inConfirmationDialog'
                /\ \E joy \in AxisSamples, b \in BOOLEAN, d \in PressDurations,
                      e \in ElapsedSamples : HandleJoystick(joy, joy, b, d, e, e, e) )
              => UNCHANGED <<chores, users, fileChores, fileUsers>>
      ]_vars

\* C23 witness: the joystick un-completed a chore whose completion had credited
\* a user, the dialog is closed and the user is back at the earlier balance.
C23_Witness ==
    /\ trail.phase = "undone"
    /\ trail.undoBy = "joystick"
    /\ trail.matched
    /\ ~trail.edited
    /\ ~inConfirmationDialog
    /\ ~chores[trail.idx].completed
    /\ ~chores[trail.idx].pointsAwarded
    /\ pointsOf(users) = trail.before

\* C24: in the dialog, the release of a timed press shorter than the long-press
\* threshold commits the choice shown after this sample: with "Y" the selected
\* chore (if there is one) is completed at now(), its nextDue recomputed and
\* pointsAwarded set, and the user its assignee names is credited unless
\* pointsAwarded was already set; with "N" no chore and no user changes; either
\* way the dialog is closed and scrollPosition is 0.  No other step closes the
\* dialog.
C24_ShortRelease ==
    /\ inConfirmationDialog
    /\ pressTracked
    /\ \E joy \in AxisSamples, d \in PressDurations, e \in ElapsedSamples :
          /\ d < LONG_PRESS_DURATION
          /\ HandleJoystick(joy, joy, FALSE, d, e, e, e)

C24_DialogCommit ==
    [][LET cur == currentChoreIndex + 1
           k   == findUser(users, chores[cur].person)
           pts == pointsFor(chores[cur].frequency)
       IN  /\ C24_ShortRelease =>
                /\ ~inConfirmationDialog'
                /\ scrollPosition' = 0
                /\ IF confirmationSelection' /\ chores # <<>>
                   THEN /\ chores' = [chores EXCEPT ![cur] =
                                         calculateNextDueDate(
                                             [@ EXCEPT !.completed = TRUE,
                                                       !.lastCompleted = clock,
                                                       !.pointsAwarded = TRUE], clock)]
                        /\ users' = IF ~chores[cur].pointsAwarded /\ k # 0
                                    THEN [users EXCEPT ![k].points = @ + pts]
                                    ELSE users
                   ELSE UNCHANGED <<chores, users, fileChores, fileUsers>>
           /\ (inConfirmationDialog /\ ~inConfirmationDialog') => C24_ShortRelease
      ]_vars

\* C24 witness: the dialog was closed by a confirm that completed a chore and
\* credited the user its assignee names.
C24_Witness ==
    /\ trail.phase = "completed"
    /\ trail.by = "joystick"
    /\ trail.matched
    /\ ~inConfirmationDialog
    /\ scrollPosition = 0
    /\ chores[trail.idx].completed
    /\ chores[trail.idx].lastCompleted = clock
    /\ \E k \in 1..Len(users) : users[k].points > trail.before[k]

\* C25: while the dialog is open the cursor designates a chore, and that chore
\* is incomplete, as it was when the dialog was opened for it.
C25_DialogTargetIncomplete ==
    inConfirmationDialog =>
        /\ currentChoreIndex < Len(chores)
        /\ ~chores[currentChoreIndex + 1].completed

\* C27: the sample that opens the dialog leaves no press being timed; in the
\* dialog a sample with the button up and no press being timed (the one after
\* the release that opened it) closes nothing and changes no chore and no user;
\* and a press held in the dialog for the long-press threshold or longer,
\* while held and when released, leaves the dialog open, changes no chore and
\* no user, and shows no network panel (joystickPressed is not set).
C27_DialogPressTimer ==
    [][/\ (~inConfirmationDialog /\ inConfirmationDialog') => ~pressTracked'
       /\ ( /\ inConfirmationDialog
            /\ ~pressTracked
            /\ \E joy \in AxisSamples, d \in PressDurations, e \in ElapsedSamples :
                  HandleJoystick(joy, joy, FALSE, d, e, e, e) )
          => /\ inConfirmationDialog'
             /\ UNCHANGED <<chores, users>>
       /\ ( /\ inConfirmationDialog
            /\ pressTracked
            /\ \E joy \in AxisSamples, b \in BOOLEAN, d \in PressDurations,
                  e \in ElapsedSamples :
                  /\ d >= LONG_PRESS_DURATION
                  /\ HandleJoystick(joy, joy, b, d, e, e, e) )
          => /\ inConfirmationDialog'
             /\ UNCHANGED <<chores, users, joystickPressed>>
      ]_vars

\* C27 witness: the dialog is open on an incomplete chore, "Y" preselected, and
\* no press is being timed.
C27_Witness ==
    /\ inConfirmationDialog
    /\ ~pressTracked
    /\ ~joystickPressed
    /\ confirmationSelection
    /\ lcd = "dialog"
    /\ chores # <<>>
    /\ ~chores[currentChoreIndex + 1].completed

\* C18: a toggle, delete-chore, get-chore, update-chore, delete-user, get-user
\* or update-user request whose index is below 0 or not below the size of the
\* collection, and any of these or an add-chore or add-user request that lacks
\* a parameter, is answered with an error status and leaves the chores, the
\* users, the cursor and both files as they were.
C18_BadRequest ==
    \/ \E index \in WebIndexes :
          /\ ~(index >= 0 /\ index < Len(chores))
          /\ \/ HandleToggleChore(TRUE, index)
             \/ HandleDeleteChore(TRUE, index)
             \/ HandleGetChore(TRUE, index)
             \/ \E n \in Names, p \in Persons, f \in Frequencies :
                   HandleUpdateChore(TRUE, index, n, p, f)
    \/ \E index \in WebIndexes :
          /\ ~(index >= 0 /\ index < Len(users))
          /\ \/ HandleDeleteUser(TRUE, index)
             \/ HandleGetUser(TRUE, index)
             \/ \E u \in UserNames : HandleUpdateUser(TRUE, index, u)
    \/ HandleToggleChore(FALSE, 0)
    \/ HandleAddChore(FALSE, "", "", "")
    \/ HandleDeleteChore(FALSE, 0)
    \/ HandleGetChore(FALSE, 0)
    \/ HandleUpdateChore(FALSE, 0, "", "", "")
    \/ HandleAddUser(FALSE, "")
    \/ HandleDeleteUser(FALSE, 0)
    \/ HandleGetUser(FALSE, 0)
    \/ HandleUpdateUser(FALSE, 0, "")

C18_ErrorLeavesState ==
    [][C18_BadRequest =>
          /\ response' = 400
          /\ UNCHANGED <<chores, users, currentChoreIndex, fileChores, fileUsers>>
      ]_vars

\* C18 witness: an error response was sent while a chore and a user exist, the
\* chore completed and the user holding points.
C18_Witness ==
    /\ response = 400
    /\ chores # <<>>
    /\ chores[1].completed
    /\ users # <<>>
    /\ users[1].points > 0
    /\ fileChores = saveChores(chores, FileAbsent, TRUE)
    /\ fileUsers = saveUsers(users, FileAbsent, TRUE)

\* C13: a sweep changes a chore only if it is completed and now() >= nextDue, and
\* then clears completed and pointsAwarded together; it changes no incomplete
\* chore, no lastCompleted, no nextDue and no user; the chores file is written and
\* the chore screen is redrawn exactly when some chore changed.
C13_SweepFrame ==
    [][UpdateChoreStatus =>
          /\ Len(chores') = Len(chores)
          /\ \A k \in 1..Len(chores) :
                /\ chores'[k] # chores[k] =>
                      /\ chores[k].completed
                      /\ clock >= chores[k].nextDue
                /\ (chores[k].completed /\ clock >= chores[k].nextDue) =>
                      /\ ~chores'[k].completed
                      /\ ~chores'[k].pointsAwarded
                /\ ~chores[k].completed => chores'[k] = chores[k]
                /\ chores'[k].lastCompleted = chores[k].lastCompleted
                /\ chores'[k].nextDue = chores[k].nextDue
          /\ users' = users
          /\ fileUsers' = fileUsers
          /\ IF chores' # chores
             THEN fileChores' = saveChores(chores', fileChores, mounted) /\ lcd' = "chore"
             ELSE fileChores' = fileChores /\ lcd' = lcd
      ]_vars

\* C13 witness: a sweep has reset a chore that was completed and due, and the
\* chores file holds the reset chore.
C13_Witness ==
    /\ trail.phase = "swept"
    /\ \E i \in 1..Len(chores) :
          /\ ~chores[i].completed
          /\ ~chores[i].pointsAwarded
          /\ chores[i].lastCompleted # 0
          /\ clock >= chores[i].nextDue
    /\ fileChores = saveChores(chores, FileAbsent, TRUE)
    /\ \E k \in 1..Len(users) : users[k].points > 0
    /\ lcd = "chore"

\* C14: for every chore collection and both connectivity values the LED levels
\* are those of the priority order offline, overdue, all-clear, pending: red
\* when the connection is down; otherwise red when a chore is overdue; otherwise
\* green when there is no chore or every chore is completed; otherwise yellow.
C14_IndicatorPriority ==
    \A up \in BOOLEAN :
        LET overdue  == \E k \in 1..Len(chores) :
                            ~chores[k].completed /\ clock > chores[k].nextDue
            allClear == \A k \in 1..Len(chores) : chores[k].completed
        IN  updateLEDStatus(chores, up, clock) =
                IF ~up THEN LedRed
                ELSE IF overdue THEN LedRed
                ELSE IF allClear THEN LedGreen
                ELSE LedYellow

\* C14 witness: the connection is up, a chore is overdue and the red LED was lit
\* for it.
C14_Witness ==
    /\ wifiUp
    /\ leds = LedRed
    /\ \E k \in 1..Len(chores) : ~chores[k].completed /\ clock > chores[k].nextDue

\* C35: an update of a chore (name, person, frequency) leaves every user's
\* points and the chore's completed, pointsAwarded and lastCompleted as they
\* were, also when the chore is completed and awarded, and leaves every other
\* chore alone; when the chore is completed its nextDue becomes the recurrence
\* of its lastCompleted under the new frequency.
C35_UpdateChoreFrame ==
    [][\A index \in 0..(Len(chores) - 1) :
          ( /\ response' = 200
            /\ Len(chores') = Len(chores)
            /\ chores'[index + 1].name \in Names
            /\ chores'[index + 1].person \in Persons
            /\ chores'[index + 1].frequency \in Frequencies
            /\ HandleUpdateChore(TRUE, index, chores'[index + 1].name,
                                 chores'[index + 1].person, chores'[index + 1].frequency) )
          => LET old == chores[index + 1]
                 new == chores'[index + 1]
             IN  /\ users' = users
                 /\ Len(chores') = Len(chores)
                 /\ \A j \in 1..Len(chores) : j # index + 1 => chores'[j] = chores[j]
                 /\ new.completed = old.completed
                 /\ new.pointsAwarded = old.pointsAwarded
                 /\ new.lastCompleted = old.lastCompleted
                 /\ old.completed =>
                        new.nextDue = calculateNextDueDate(
                            [old EXCEPT !.frequency = new.frequency], clock).nextDue
      ]_vars

\* C35 witness: a chore that is completed, with points awarded to a user, was
\* edited to another frequency, and its nextDue follows the new frequency.
C35_Witness ==
    /\ trail.phase = "completed"
    /\ trail.edited
    /\ trail.matched
    /\ trail.idx <= Len(chores)
    /\ chores[trail.idx].completed
    /\ chores[trail.idx].pointsAwarded
    /\ chores[trail.idx].frequency = "weekly"
    /\ chores[trail.idx].nextDue = weeklyNextDue(chores[trail.idx].lastCompleted)
    /\ \E k \in 1..Len(users) : users[k].points = DAILY_POINTS

\* C39: whenever the confirmation dialog is open (a short release would
\* commit the selection), the LCD shows the dialog: no request handler and no
\* sweep run while it is open redraws the chore view over it.
C39_DialogShown ==
    inConfirmationDialog => lcd = "dialog"

\* what the toggle request for the selected chore leaves in chores, users and
\* the two files, started from this state at this time
C37_AsWebToggle ==
    LET cur == currentChoreIndex + 1
        R   == toggleChore(Ledger, cur, clock)
    IN  /\ chores' = R.chores
        /\ users' = R.users
        /\ fileChores' = saveChores(R.chores, fileChores, mounted)
        /\ fileUsers' = IF awardRuns(Ledger, cur) \/ revokeRuns(Ledger, cur)
                        THEN saveUsers(R.users, fileUsers, mounted)
                        ELSE fileUsers

\* C37: a joystick confirm ("Y") on an incomplete chore, and an accepted short
\* press in Browsing on a completed chore, leave the chores (completed,
\* lastCompleted, nextDue, pointsAwarded), the users' points and the two files
\* exactly as the web toggle request for the same index would, started from
\* the same state at the same time.
C37_JoystickEqualsWebToggle ==
    [][/\ ( /\ chores # <<>>
            /\ ~chores[currentChoreIndex + 1].completed
            /\ confirmationSelection'
            /\ C24_ShortRelease )
          => C37_AsWebToggle
       /\ ( /\ chores # <<>>
            /\ chores[currentChoreIndex + 1].completed
            /\ ~inConfirmationDialog
            /\ pressTracked
            /\ ~joystickPressed
            /\ \E joy \in AxisSamples, d \in PressDurations, e \in ElapsedSamples :
                  /\ d < LONG_PRESS_DURATION
                  /\ e > debounceDelay
                  /\ HandleJoystick(joy, joy, FALSE, d, e, e, e) )
          => C37_AsWebToggle
      ]_vars

\* C37 witness: a joystick confirm completed a weekly chore and credited its
\* assignee, and both files hold what memory holds.
C37_Witness ==
    /\ trail.phase = "completed"
    /\ trail.by = "joystick"
    /\ trail.matched
    /\ chores[trail.idx].completed
    /\ chores[trail.idx].pointsAwarded
    /\ chores[trail.idx].frequency = "weekly"
    /\ chores[trail.idx].nextDue = weeklyNextDue(clock)
    /\ \E k \in 1..Len(users) : users[k].points = WEEKLY_POINTS
    /\ fileChores = saveChores(chores, FileAbsent, TRUE)
    /\ fileUsers = saveUsers(users, FileAbsent, TRUE)

-----------------------------------------------------------------------------
(* Properties of the recurrence calculator (SpecDue) *)

\* C8: for a last completion other than "never", the next due time is strictly
\* later than the last completion, and it is the same whatever now() is and
\* whatever the chore's other fields are.
C8_LaterAndPure ==
    (dueCase.done /\ dueCase.chore.lastCompleted # 0)
        => /\ dueCase.chore.nextDue > dueCase.chore.lastCompleted
           /\ \A t \in DueClocks, p \in Persons, c \in BOOLEAN :
                  calculateNextDueDate(
                      Chore("Dishes", p, dueCase.chore.frequency, c,
                            dueCase.chore.lastCompleted, 0, c), t).nextDue
                      = dueCase.chore.nextDue

\* C8 witness: a monthly chore last completed on 2024-12-31 at 23:59:59, computed
\* with a clock long after that: due on 2025-01-01 at 23:59:59.
C8_Witness ==
    /\ dueCase.done
    /\ dueCase.chore.frequency = "monthly"
    /\ dueCase.chore.lastCompleted = DueBase + 365 * SECS_PER_DAY + 23 * 3600 + 59 * 60 + 59
    /\ dueCase.chore.nextDue = dueCase.chore.lastCompleted + SECS_PER_DAY
    /\ dueCase.t = DueBase + 500 * SECS_PER_DAY

\* C9: a weekly chore last completed on Wednesday 2024-01-10 is next due on
\* Monday 2024-01-15.
C9_WednesdayToNextMonday ==
    (/\ dueCase.done
     /\ dueCase.chore.frequency = "weekly"
     /\ dueCase.chore.lastCompleted # 0
     /\ breakTime(dueCase.chore.lastCompleted).Year = 2024 - 1970
     /\ breakTime(dueCase.chore.lastCompleted).Month = 1
     /\ breakTime(dueCase.chore.lastCompleted).Day = 10)
        => /\ breakTime(dueCase.chore.nextDue).Year = 2024 - 1970
           /\ breakTime(dueCase.chore.nextDue).Month = 1
           /\ breakTime(dueCase.chore.nextDue).Day = 15

C11_DailyNextMidnight ==
    (dueCase.done /\ dueCase.chore.frequency = "daily" /\ dueCase.chore.lastCompleted # 0)
        => LET lc  == dueCase.chore.lastCompleted
               due == dueCase.chore.nextDue
               a   == breakTime(lc)
               b   == breakTime(due)
           IN  /\ due = ((lc \div SECS_PER_DAY) + 1) * SECS_PER_DAY
               /\ b.Hour = 0 /\ b.Minute = 0 /\ b.Second = 0
               /\ b.Wday = (a.Wday % 7) + 1
               /\ IF a.Day < monthLength(a.Year, a.Month)
                  THEN b.Day = a.Day + 1 /\ b.Month = a.Month /\ b.Year = a.Year
                  ELSE /\ b.Day = 1
                       /\ b.Month = (a.Month % 12) + 1
                       /\ b.Year = IF a.Month = 12 THEN a.Year + 1 ELSE a.Year

\* C11 witness: last completed on a Tuesday at 14:00, due on Wednesday at 00:00.
C11_Witness ==
    /\ dueCase.done
    /\ dueCase.chore.frequency = "daily"
    /\ breakTime(dueCase.chore.lastCompleted).Wday = 3
    /\ breakTime(dueCase.chore.lastCompleted).Hour = 14
    /\ breakTime(dueCase.chore.nextDue).Wday = 4
    /\ breakTime(dueCase.chore.nextDue).Hour = 0
    /\ dueCase.chore.nextDue = dueCase.chore.lastCompleted + 10 * 3600

\* C12: the monthly next due time is day 1 of the month after the month of
\* lastCompleted, at the time of day of lastCompleted, for every day of the
\* month; a completion in December gives 1 January of the next year.
C12_MonthlyFirstOfNext ==
    (dueCase.done /\ dueCase.chore.frequency = "monthly" /\ dueCase.chore.lastCompleted # 0)
        => LET lc  == dueCase.chore.lastCompleted
               due == dueCase.chore.nextDue
               a   == breakTime(lc)
               b   == breakTime(due)
           IN  /\ b.Day = 1
               /\ b.Hour = a.Hour /\ b.Minute = a.Minute /\ b.Second = a.Second
               /\ a.Month = 12 => b.Month = 1 /\ b.Year = a.Year + 1
               /\ a.Month < 12 => b.Month = a.Month + 1 /\ b.Year = a.Year
               /\ due - lc = (monthLength(a.Year, a.Month) - a.Day + 1) * SECS_PER_DAY

\* C12 witness: last completed on 2024-01-31 at 14:00, due on 2024-02-01 at 14:00.
C12_Witness ==
    /\ dueCase.done
    /\ dueCase.chore.frequency = "monthly"
    /\ dueCase.chore.lastCompleted = DueBase + 30 * SECS_PER_DAY + 14 * 3600
    /\ breakTime(dueCase.chore.lastCompleted).Day = 31
    /\ breakTime(dueCase.chore.nextDue).Month = 2
    /\ breakTime(dueCase.chore.nextDue).Day = 1
    /\ dueCase.chore.nextDue = dueCase.chore.lastCompleted + SECS_PER_DAY

-----------------------------------------------------------------------------
(* Properties of the device from power-on (SpecBoot) *)

\* C15: in every state from the moment setup() drives the indicator outputs,
\* exactly one of red, yellow and green is active.
C15_ExactlyOneLed ==
    phase # "off" =>
        Cardinality({c \in {"red", "yellow", "green"} : leds[c]}) = 1

\* C19 (as the code has it): a start-up that finds /chores.json absent or
\* malformed ends with no chores; one that finds /users.json absent or
\* malformed ends with the single user "Default" with 0 points, written to
\* /users.json at once; either way setup() returns and loop() runs.
C19_LoadAbsentOrMalformed ==
    [][(phase = "connecting" /\ wifiUp') =>
          /\ phase' = "loop"
          /\ fileChores.kind # "array" => chores' = <<>>
          /\ fileUsers.kind # "array" =>
                /\ users' = <<User("Default", 0)>>
                /\ fileUsers' = FileArray(users')
      ]_vars

\* C19 as stated: the same start-up ends with no chores, respectively no users.
C19_LoadsEmpty ==
    [][(phase = "connecting" /\ wifiUp') =>
          /\ phase' = "loop"
          /\ fileChores.kind # "array" => chores' = <<>>
          /\ fileUsers.kind # "array" => users' = <<>>
      ]_vars

\* C19 witness: loop() is running after a start-up that found /chores.json
\* malformed; there are no chores and the user list is the default user, saved.
C19_Witness ==
    /\ phase = "loop"
    /\ wifiUp
    /\ serverUp
    /\ fileChores = FileMalformed
    /\ chores = <<>>
    /\ users = <<User("Default", 0)>>
    /\ fileUsers = FileArray(users)

\* C20: while loop() runs with storage mounted and the station not connected,
\* whether it never connected or lost the connection, the chores the joystick
\* browses, confirms and completes are the ones persisted in /chores.json.
C20_JoystickHasPersistedChores ==
    (phase = "loop" /\ mounted /\ ~wifiUp /\ fileChores.kind = "array") =>
        fileChores.items = [k \in 1..Len(chores) |-> choreObj(chores[k])]

\* C30: while loop() runs with storage mounted, the chores that /chores.json
\* holds (none if it is absent or unreadable) are the chores in memory, field by
\* field (name, person, frequency, completed, lastCompleted, pointsAwarded),
\* and the users that /users.json holds are the users in memory.
C30_FilesEqualMemory ==
    (phase = "loop" /\ mounted) =>
        /\ (IF fileChores.kind = "array" THEN fileChores.items ELSE <<>>)
              = [k \in 1..Len(chores) |-> choreObj(chores[k])]
        /\ (IF fileUsers.kind = "array" THEN fileUsers.items ELSE <<>>) = users

-----------------------------------------------------------------------------
(* Properties of the cursor (SpecNav) *)

\* C16: the cursor is a valid index in every state: 0 when there is no chore,
\* otherwise at least 0 and below the number of chores.
C16_CursorValid ==
    IF chores = <<>>
    THEN currentChoreIndex = 0
    ELSE currentChoreIndex >= 0 /\ currentChoreIndex < Len(chores)

\* C16 witness: a chore was deleted while the cursor stood on the last of
\* three, and the cursor now stands on the last of the two that remain.
C16_Witness ==
    /\ Len(chores) = MaxNavChores - 1
    /\ currentChoreIndex = Len(chores) - 1
    /\ response = 200
    /\ lcd = "chore"
    /\ trail = TrailIdle
    /\ fileChores = saveChores(chores, FileAbsent, TRUE)
    /\ \E k \in 1..Len(chores) : chores[k].completed

\* C17: while joyY stays outside the dead-zone the cursor moves at most once.
C17_OneMovePerDeflection ==
    heldMoves <= 1

\* C26: the sample that finds the button held longer than the long-press
\* threshold in Browsing, with no long press handled yet in this hold, shows
\* the network panel and returns to Browsing (after the release and the 2 s
\* dwell) with every chore, every user and the cursor as they were, and marks
\* the hold as handled; and while the hold is marked as handled no sample opens
\* the dialog or changes a chore or a user, the release included.
C26_LongPressReadOnly ==
    [][/\ ( /\ ~inConfirmationDialog
            /\ pressTracked
            /\ ~joystickPressed
            /\ \E joy \in AxisSamples, d \in PressDurations, e \in ElapsedSamples :
                  /\ d > LONG_PRESS_DURATION
                  /\ HandleJoystick(joy, joy, TRUE, d, e, e, e) )
          => /\ joystickPressed'
             /\ ~inConfirmationDialog'
             /\ UNCHANGED <<chores, users, currentChoreIndex>>
       /\ ( /\ ~inConfirmationDialog
            /\ joystickPressed
            /\ \E joy \in AxisSamples, b \in BOOLEAN, d \in PressDurations,
                  e \in ElapsedSamples : HandleJoystick(joy, joy, b, d, e, e, e) )
          => /\ ~inConfirmationDialog'
             /\ UNCHANGED <<chores, users>>
      ]_vars

-----------------------------------------------------------------------------
(* Properties of the debounce timer (SpecPress) *)

\* C28: a joystick sample un-completes a chore or opens the dialog only if more
\* than the debounce delay has passed since the joystick last un-completed a
\* chore, opened the dialog or closed it; and a short press released in
\* Browsing within that delay changes no chore, no user, no file and not the
\* dialog, and leaves no press being timed.
C28_ShortPressDebounced ==
    [][\A joy \in AxisSamples, b \in BOOLEAN, d \in PressDurations, dt \in PressSteps,
          e \in ElapsedSamples :
          JoystickTimed(joy, b, d, dt, e) =>
             /\ (~inConfirmationDialog /\ acceptedPress)
                   => sinceAccepted + dt > debounceDelay
             /\ ( /\ ~inConfirmationDialog
                  /\ ~b
                  /\ pressTracked
                  /\ d < LONG_PRESS_DURATION
                  /\ sinceAccepted + dt <= debounceDelay )
                   => /\ ~pressTracked'
                      /\ UNCHANGED <<chores, users, inConfirmationDialog,
                                     confirmationSelection, fileChores, fileUsers>>
      ]_vars

\* C28 witness: 200 ms after the dialog was closed by a confirm the chore is
\* still completed and no press is being timed, a press released in between
\* having been dropped.
C28_Witness ==
    /\ sinceAccepted = 200
    /\ debounceAge = 200
    /\ ~pressTracked
    /\ ~inConfirmationDialog
    /\ trail.phase = "completed"
    /\ trail.by = "joystick"
    /\ chores[trail.idx].completed


-----------------------------------------------------------------------------
(* Properties of the periodic reset (SpecSweep) *)

\* chores[0] is completed and its due date has come
C22_DueForReset ==
    /\ chores # <<>>
    /\ chores[1].completed
    /\ clock >= chores[1].nextDue

\* the due date of a completed chore is a midnight (daily), on a Monday
\* (weekly) or on the 1st of a month (monthly)
C22_ResetInstant ==
    \A k \in 1..Len(chores) :
        chores[k].completed =>
            /\ chores[k].frequency = "daily" => chores[k].nextDue % SECS_PER_DAY = 0
            /\ chores[k].frequency = "weekly" => weekday(chores[k].nextDue) = MONDAY
            /\ chores[k].frequency = "monthly" => breakTime(chores[k].nextDue).Day = 1

\* chores[0] is gone, or it is incomplete with pointsAwarded false
C22_ResetOrGone ==
    \/ chores = <<>>
    \/ ~chores[1].completed /\ ~chores[1].pointsAwarded

\* chores[0] is deleted by this step
C22_Deleting == HandleDeleteChore(TRUE, 0) /\ Len(chores') < Len(chores)

\* C22 as stated: a completed chore whose due date has come stays so until it
\* is reset by the sweep, un-completed or deleted (the only steps by which
\* chores[0] stops being completed and due), and one of the three eventually
\* happens
C22_ResetUnlessUndoneOrDeleted ==
    /\ C22_DueForReset ~> ~C22_DueForReset
    /\ [][C22_DueForReset /\ ~C22_DueForReset' =>
              C22_ResetOrGone' \/ C22_Deleting]_vars

\* C22, amended: a completed chore whose due date has come is eventually
\* incomplete with pointsAwarded false (reset by the sweep or un-completed),
\* deleted, or edited or confirmed once more from the dialog so that its
\* recomputed due date lies after now, and it stays completed and due until
\* one of these happens; and the due date of a
\* completed chore is always a midnight (daily), on a Monday (weekly) or on
\* the 1st of a month (monthly)
C22_SweepEventuallyResets ==
    /\ C22_DueForReset ~> ~C22_DueForReset
    /\ [][C22_DueForReset /\ ~C22_DueForReset' =>
              \/ C22_ResetOrGone'
              \/ C22_Deleting
              \/ /\ \/ \E f \in Frequencies :
                          HandleUpdateChore(TRUE, 0, "Dishes", "Default", f)
                    \/ C24_ShortRelease /\ confirmationSelection'
                 /\ chores'[1].completed
                 /\ clock' < chores'[1].nextDue]_vars
    /\ []C22_ResetInstant

\* the sweep has reset a monthly chore at the very second it fell due
C22_Witness ==
    /\ trail.phase = "swept"
    /\ chores # <<>>
    /\ chores[1].frequency = "monthly"
    /\ ~chores[1].completed
    /\ ~chores[1].pointsAwarded
    /\ chores[1].lastCompleted > 0
    /\ clock = chores[1].nextDue


-----------------------------------------------------------------------------
(* Properties of the control loop (SpecLoop) *)

\* a handler returns with chores and users as its statements left them, and
\* for the chore it completed or un-completed every field is updated
C29_ReturnsFullyApplied ==
    LET i   == running.index + 1
        c   == chores[i]
        k   == findUser(users, c.person)
        pts == pointsFor(c.frequency)
    IN  /\ [chores |-> chores', users |-> users'] = running.mem
        /\ (~c.completed /\ chores'[i].completed) =>
               /\ chores'[i].pointsAwarded
               /\ chores'[i].lastCompleted = clock
               /\ chores'[i].nextDue = calculateNextDueDate(chores'[i], clock).nextDue
               /\ k # 0 /\ ~c.pointsAwarded => users'[k].points = users[k].points + pts
        /\ (c.completed /\ ~chores'[i].completed) =>
               /\ ~chores'[i].pointsAwarded
               /\ k # 0 /\ c.pointsAwarded =>
                      users'[k].points = IF users[k].points - pts < 0 THEN 0
                                         ELSE users[k].points - pts

\* C29: the handlers run one at a time, each to its end: what a list request
\* reads is the chores and users either as the handler in progress found
\* them or as it leaves them, never a state in between; and a handler that
\* completes or un-completes a chore leaves completed, lastCompleted, nextDue,
\* pointsAwarded and the assignee's points all updated
C29_ListingSeesWholeOperations ==
    /\ [](listed.taken => listed.view = listed.entry \/ listed.view = listed.exit)
    /\ [][Return /\ chores # <<>> =>
              C29_ReturnsFullyApplied]_vars

\* a list request served after a completion that credited the assignee
C29_Witness ==
    /\ listed.taken
    /\ listed.view.chores # <<>>
    /\ listed.view.chores[1].completed
    /\ listed.view.chores[1].pointsAwarded
    /\ listed.view.chores[1].lastCompleted = clock
    /\ listed.view.users[1].points > 0
    /\ running.handler = "none"

-----------------------------------------------------------------------------
(* Properties of the user collection (SpecUsers) *)

\* C36: a deletion of a user removes that user and a rename changes that
\* user's name only: every chore (person, completed, pointsAwarded,
\* lastCompleted, nextDue) and every other user stay as they were, and the
\* renamed user keeps its points.
C36_UserEditFrame ==
    [][/\ (\E index \in 0..(Len(users) - 1) : HandleDeleteUser(TRUE, index))
          => /\ chores' = chores
             /\ \E i \in 1..Len(users) : users' = erase(users, i)
       /\ (\E index \in 0..(Len(users) - 1), u \in ManyUserNames :
              HandleUpdateUser(TRUE, index, u))
          => /\ chores' = chores
             /\ Len(users') = Len(users)
             /\ \A k \in 1..Len(users) : users'[k].points = users[k].points
             /\ \E i \in 1..Len(users) :
                   \A k \in 1..Len(users) : k # i => users'[k] = users[k]
      ]_vars

\* C36 witness: the user that was credited for the completed chore is gone,
\* the chore still names it and is still awarded, and another user holds points.
C36_Witness ==
    /\ chores # <<>>
    /\ chores[1].completed
    /\ chores[1].pointsAwarded
    /\ audit[1].credits = 1
    /\ findUser(users, chores[1].person) = 0
    /\ \E k \in 1..Len(users) : users[k].points > 0

-----------------------------------------------------------------------------
(* Properties of the name scroll (SpecScroll) *)

\* C33: when the selected chore's name is longer than the 11 columns of the
\* LCD, the scroll offset leaves 11 characters of the name to show:
\* scrollPosition + 11 <= length of the name.
C33_WindowFilled ==
    (chores # <<>> /\ Len(chores[currentChoreIndex + 1].name) > 11)
        => scrollPosition + 11 <= Len(chores[currentChoreIndex + 1].name)

\* C34: after a step that makes the cursor designate another chore (a
\* joystick move, or a deletion at or before the cursor that leaves a chore)
\* and after a joystick or web toggle of a chore's completion, scrollPosition
\* is 0.
C34_OffsetResets ==
    [][/\ (chores # <<>> /\ currentChoreIndex' # currentChoreIndex)
          => scrollPosition' = 0
       /\ (\E index \in ScrollIndexes :
              /\ index <= currentChoreIndex
              /\ index < Len(chores)
              /\ Len(chores) > 1
              /\ HandleDeleteChore(TRUE, index))
          => scrollPosition' = 0
       /\ (/\ Len(chores') = Len(chores)
           /\ \E k \in 1..Len(chores) : chores'[k].completed # chores[k].completed)
          => scrollPosition' = 0
      ]_vars

-----------------------------------------------------------------------------
(* Properties of the long press (SpecHold) *)

\* C32: no step of loop() blocks without bound, so also when the button is
\* held down for ever a sweep that is due is run: a completed chore whose
\* due date has come does not stay so for ever (the sweep resets it, unless
\* a handler gets there first).
C32_SweepStillServiced ==
    (chores # <<>> /\ chores[1].completed /\ clock >= chores[1].nextDue)
        ~> ~(chores # <<>> /\ chores[1].completed /\ clock >= chores[1].nextDue)

-----------------------------------------------------------------------------
(* Properties of a power loss (SpecCrash) *)

\* what the two files keep of a memory M: the fields saveChores writes of
\* each chore, and the users
storedLedger(M) ==
    [chores |-> [k \in 1..Len(M.chores) |-> choreObj(M.chores[k])],
     users  |-> M.users]

\* C31: whenever power is lost, inside a completion or un-completion or
\* between two handlers, the chores and users loaded at the next boot are a
\* state the memory was in at some point of the interrupted operation: its
\* state on entry, its state on return, or the state after one of its
\* statements; in particular no user is credited for a chore that is loaded
\* as not completed and not awarded
C31_ReloadIsAPointOfTheOperation ==
    [][Reboot =>
          \E j \in 0..Len(runningStatements) :
              storedLedger([chores |-> chores', users |-> users']) =
                  storedLedger(executeAll(SubSeq(runningStatements, 1, j),
                                          [chores |-> chores, users |-> users],
                                          running.index + 1, clock))]_vars

\* C38: the sweep resets a chore without changing its nextDue, and a chore
\* that is incomplete because the sweep reset it has nextDue <= now() until it
\* is completed again: once now() > nextDue it is overdue, and the LEDs
\* computed from the chores with the station connected are red, not yellow
C38_SweptChoreIsOverdue ==
    /\ [](\A k \in 1..Len(chores) :
              audit[k].swept =>
                  /\ ~chores[k].completed
                  /\ chores[k].nextDue <= clock
                  /\ clock > chores[k].nextDue =>
                         /\ isChoreOverdue(chores[k], clock)
                         /\ updateLEDStatus(chores, TRUE, clock) = LedRed)
    /\ [][\A k \in 1..Len(chores) :
              k <= Len(chores') /\ ~audit[k].swept /\ audit'[k].swept =>
                  chores'[k].nextDue = chores[k].nextDue]_vars

=============================================================================
